---- MODULE Spec2Model ----
(***************************************************************************)
(* Model of the shpbl workspace service (royatthreesigma/seed):            *)
(*   - helpers/file_manager.py : file operations and the line-range merger *)
(*   - container.py            : exec_in_container                         *)
(*   - models.py               : the RunCommand deny-list                  *)
(*   - routers/workspace_service.py : the request handlers                 *)
(*                                                                         *)
(* Text is a sequence of Unicode code points, a byte string a sequence of  *)
(* numbers 0..255.                                                         *)
(***************************************************************************)
EXTENDS Integers, Sequences, FiniteSets, TLC

VARIABLES
  line_numbers,   \* argument of create_line_ranges_with_context
  context_lines,  \* argument of create_line_ranges_with_context
  merged,         \* its return value: None before the call, then Some(ranges)
  containers,     \* the container runtime: names of the containers that exist
  daemon,         \* the container runtime: how it answers the pending call
  request,        \* the request (or call) being served, NoRequest when idle
  exec_result,    \* what the last exec_in_container call returned or raised
  execs,          \* the exec_run calls issued for the pending request
  response,       \* the response to the pending request
  files,          \* the containers' file systems: virtual path -> bytes, None if absent
  files_before,   \* history: files as they were when the pending request arrived
  written,        \* history: the text overwrite_file last wrote to each path
  loop            \* the event loop: the requests it holds and the handlers it is in

\* the merger's variables and the event loop, which stays idle where requests
\* are served one at a time
merge_vars == <<line_numbers, context_lines, merged, loop>>
service_vars == <<containers, daemon, request, exec_result, execs, response>>
file_vars == <<files, files_before, written>>
vars == <<line_numbers, context_lines, merged,
          containers, daemon, request, exec_result, execs, response,
          files, files_before, written, loop>>

(***************************************************************************)
(* Values.  An Optional[...] value is a sequence of length at most one:    *)
(* None is <<>>, a present value x is <<x>>.                               *)
(***************************************************************************)
None == <<>>
Some(x) == <<x>>

NotCalled == [kind |-> "not called"]
NoRequest == [op |-> "none"]
NoResponse == [kind |-> "none"]
NoDaemon == [get |-> "none"]
\* the event loop holds no request
LoopIdle == [running |-> {}, tasks |-> <<>>]

Max(a, b) == IF a >= b THEN a ELSE b
Min(a, b) == IF a <= b THEN a ELSE b

(***************************************************************************)
(* Bounds of the line-range merger's inputs.                               *)
(***************************************************************************)
MaxLine == 15      \* largest line number drawn
MaxLines == 3      \* longest list of line numbers drawn
MaxContext == 3    \* largest context width drawn
NegContext == 1    \* context widths down to -NegContext are drawn

(***************************************************************************)
(* helpers/file_manager.py: create_line_ranges_with_context                *)
(***************************************************************************)

\* InitialRanges without the clamp max(1, ...)
InitialRangesNoClamp(lines, context) ==
  [i \in 1..Len(lines) |-> <<lines[i] - context, lines[i] + context>>]

\* file_manager.py 202-207: one (start, end) window per line, start clamped to 1
InitialRanges(lines, context) ==
  [i \in 1..Len(lines) |-> <<Max(1, lines[i] - context), lines[i] + context>>]

\* Python's tuple order, used by list.sort()
TupleLess(r1, r2) == r1[1] < r2[1] \/ (r1[1] = r2[1] /\ r1[2] < r2[2])

RECURSIVE InsertRange(_, _)
InsertRange(sorted, r) ==
  IF sorted = <<>> THEN <<r>>
  ELSE IF TupleLess(r, Head(sorted)) THEN <<r>> \o sorted
  ELSE <<Head(sorted)>> \o InsertRange(Tail(sorted), r)

\* the ranges left in the order of the input list
KeepOrder(ranges) == ranges

\* file_manager.py 210: ranges.sort()
RECURSIVE SortRanges(_)
SortRanges(ranges) ==
  IF ranges = <<>> THEN <<>>
  ELSE InsertRange(SortRanges(Tail(ranges)), Head(ranges))

\* MergeStep with the test "current_start <= last_end" (touching ranges kept apart)
MergeStepNoTouch(acc, current) ==
  LET last == acc[Len(acc)]
  IN IF current[1] <= last[2]
     THEN [acc EXCEPT ![Len(acc)] = <<last[1], Max(last[2], current[2])>>]
     ELSE Append(acc, current)

\* file_manager.py 216-222: one step of the sweep over ranges[1:]
MergeStep(acc, current) ==
  LET last == acc[Len(acc)]
  IN IF current[1] <= last[2] + 1
     THEN [acc EXCEPT ![Len(acc)] = <<last[1], Max(last[2], current[2])>>]
     ELSE Append(acc, current)

\* file_manager.py 213-224: merged = [ranges[0]]; for ... in ranges[1:]
RECURSIVE MergeSweep(_, _)
MergeSweep(acc, rest) ==
  IF rest = <<>> THEN acc
  ELSE MergeSweep(MergeStep(acc, Head(rest)), Tail(rest))

create_line_ranges_with_context(lines, context) ==
  IF lines = <<>> THEN <<>>
  ELSE LET ranges == SortRanges(InitialRanges(lines, context))
       IN MergeSweep(<<Head(ranges)>>, Tail(ranges))

(***************************************************************************)
(* Specification of the merger: the inputs are drawn, the function is      *)
(* applied once.                                                           *)
(***************************************************************************)
LineLists == UNION {[1..n -> 1..MaxLine] : n \in 0..MaxLines}
ContextWidths == (0 - NegContext)..MaxContext

\* the service plays no part in the merger's specification
ServiceIdle ==
  /\ containers = {}
  /\ daemon = NoDaemon
  /\ request = NoRequest
  /\ exec_result = NotCalled
  /\ execs = <<>>
  /\ response = NoResponse
  /\ files = <<>>
  /\ files_before = <<>>
  /\ written = <<>>

MergeInit ==
  /\ line_numbers \in LineLists
  /\ context_lines \in ContextWidths
  /\ merged = None
  /\ loop = LoopIdle
  /\ ServiceIdle

CallMerge ==
  /\ merged = None
  /\ merged' = Some(create_line_ranges_with_context(line_numbers, context_lines))
  /\ UNCHANGED <<line_numbers, context_lines, loop>>
  /\ UNCHANGED service_vars
  /\ UNCHANGED file_vars

MergeNext == CallMerge

SpecMerge == MergeInit /\ [][MergeNext]_vars

MergeCalled == merged # None
Ranges == merged[1]
LineSet == {line_numbers[i] : i \in 1..Len(line_numbers)}

\* C7: for every non-empty list of line numbers >= 1 and every context width
\* >= 0, the ranges returned by create_line_ranges_with_context are sorted by
\* start, consecutive ranges satisfy end[i] < start[i+1] - 1, and every window
\* [max(1, n - context), n + context] lies inside one returned range.
C7_MergeSortedDisjointCover ==
  (MergeCalled /\ line_numbers # <<>> /\ context_lines >= 0) =>
    /\ \A i \in 1..(Len(Ranges) - 1) :
         /\ Ranges[i][1] < Ranges[i + 1][1]
         /\ Ranges[i][2] < Ranges[i + 1][1] - 1
    /\ \A n \in LineSet :
         \E j \in 1..Len(Ranges) :
           /\ Ranges[j][1] <= Max(1, n - context_lines)
           /\ n + context_lines <= Ranges[j][2]

\* C7 witness: a call with context >= 0 where two windows were merged into one
\* range and another range stayed separate.
C7_Witness ==
  /\ MergeCalled
  /\ context_lines >= 1
  /\ Cardinality(LineSet) = 3
  /\ Len(Ranges) = 2

\* the lines a list of ranges covers
Covered(ranges) == UNION {ranges[i][1]..ranges[i][2] : i \in 1..Len(ranges)}
\* the union of the requested windows
Windows ==
  UNION {Max(1, n - context_lines)..(n + context_lines) : n \in LineSet}
\* the maximal runs of consecutive lines of a set, each named by its first line
RunStarts(S) == {x \in S : x - 1 \notin S}

\* C23: for every non-empty list of line numbers >= 1 and every context width
\* >= 0, the lines covered by the returned ranges are exactly the union of the
\* windows [max(1, n - context), n + context], every returned range is
\* non-empty, and there are as many ranges as the union has maximal runs of
\* consecutive lines.  A range is a run of consecutive lines, so a list that
\* covers exactly the union needs one range for each maximal run: no shorter
\* list does it.
C23_MergeMinimalCover ==
  (MergeCalled /\ line_numbers # <<>> /\ context_lines >= 0) =>
    /\ Covered(Ranges) = Windows
    /\ \A i \in 1..Len(Ranges) : Ranges[i][1] <= Ranges[i][2]
    /\ Len(Ranges) = Cardinality(RunStarts(Windows))

\* C23 witness: an unsorted list two of whose windows, 1..3 and 4..6, touch
\* without overlapping and are returned as one range, beside a separate one.
C23_Witness ==
  /\ MergeCalled
  /\ line_numbers = <<12, 2, 5>>
  /\ context_lines = 1
  /\ Ranges = <<<<1, 6>>, <<11, 13>>>>

\* C8: create_line_ranges_with_context returns [(3,9),(13,17)] for the lines
\* {5,7,15} with context 2, and [(1,4)] for the lines {1} with context 3.
C8_MergeExamples ==
  MergeCalled =>
    /\ (LineSet = {5, 7, 15} /\ context_lines = 2) => Ranges = <<<<3, 9>>, <<13, 17>>>>
    /\ (LineSet = {1} /\ context_lines = 3) => Ranges = <<<<1, 4>>>>

\* C8 witness: the call with lines 5, 7, 15 and context 2 has returned.
C8_Witness ==
  /\ MergeCalled
  /\ line_numbers = <<5, 7, 15>>
  /\ context_lines = 2
  /\ Ranges = <<<<3, 9>>, <<13, 17>>>>

(***************************************************************************)
(* Text and byte strings.                                                  *)
(***************************************************************************)
Pad(ch, n) == [i \in 1..n |-> ch] \o <<>>
IsAscii(s) == \A i \in 1..Len(s) : s[i] < 128

\* str.encode("utf-8") of one code point (surrogates are not drawn)
EncodeChar(c) ==
  IF c < 128 THEN <<c>>
  ELSE IF c < 2048 THEN <<192 + (c \div 64), 128 + (c % 64)>>
  ELSE IF c < 65536
    THEN <<224 + (c \div 4096), 128 + ((c \div 64) % 64), 128 + (c % 64)>>
  ELSE <<240 + (c \div 262144), 128 + ((c \div 4096) % 64),
         128 + ((c \div 64) % 64), 128 + (c % 64)>>

RECURSIVE Utf8EncodeSplit(_)
Utf8EncodeSplit(s) ==
  IF Len(s) = 0 THEN <<>>
  ELSE IF Len(s) = 1 THEN EncodeChar(s[1])
  ELSE LET m == Len(s) \div 2
       IN Utf8EncodeSplit(SubSeq(s, 1, m)) \o Utf8EncodeSplit(SubSeq(s, m + 1, Len(s)))

\* str.encode("utf-8"): the encodings of the code points, concatenated
Utf8Encode(s) == IF IsAscii(s) THEN s ELSE Utf8EncodeSplit(s)

IsCont(b) == b >= 128 /\ b <= 191

\* length in bytes of the well-formed UTF-8 character at the head of b, 0 when
\* the head of b is ill-formed (strict decoding: no overlong forms, no surrogates)
CharLen(b) ==
  LET n == Len(b)
      b1 == b[1]
  IN IF b1 < 128 THEN 1
     ELSE IF b1 >= 194 /\ b1 <= 223 /\ n >= 2 /\ IsCont(b[2]) THEN 2
     ELSE IF /\ b1 >= 224 /\ b1 <= 239 /\ n >= 3 /\ IsCont(b[2]) /\ IsCont(b[3])
             /\ (b1 = 224 => b[2] >= 160) /\ (b1 = 237 => b[2] <= 159) THEN 3
     ELSE IF /\ b1 >= 240 /\ b1 <= 244 /\ n >= 4
             /\ IsCont(b[2]) /\ IsCont(b[3]) /\ IsCont(b[4])
             /\ (b1 = 240 => b[2] >= 144) /\ (b1 = 244 => b[2] <= 143) THEN 4
     ELSE 0

\* the code point of the well-formed character of k bytes at the head of b
CodePoint(b, k) ==
  IF k = 1 THEN b[1]
  ELSE IF k = 2 THEN (b[1] - 192) * 64 + (b[2] - 128)
  ELSE IF k = 3 THEN (b[1] - 224) * 4096 + (b[2] - 128) * 64 + (b[3] - 128)
  ELSE (b[1] - 240) * 262144 + (b[2] - 128) * 4096 + (b[3] - 128) * 64 + (b[4] - 128)

Undecodable == [ok |-> FALSE, text |-> <<>>]
Decoded(t) == [ok |-> TRUE, text |-> t]

RECURSIVE DecodeSeq(_)
DecodeSeq(b) ==
  IF b = <<>> THEN Decoded(<<>>)
  ELSE LET k == CharLen(b)
       IN IF k = 0 THEN Undecodable
          ELSE LET rest == DecodeSeq(SubSeq(b, k + 1, Len(b)))
               IN IF rest.ok THEN Decoded(<<CodePoint(b, k)>> \o rest.text)
                  ELSE Undecodable

\* a long byte string is cut at a character boundary near its middle
RECURSIVE Utf8DecodeSplit(_)
Utf8DecodeSplit(b) ==
  IF Len(b) <= 8 THEN DecodeSeq(b)
  ELSE LET mid == Len(b) \div 2
           cuts == {k \in mid..(mid + 3) : ~IsCont(b[k + 1])}
       IN IF cuts = {} THEN Undecodable
          ELSE LET k == CHOOSE c \in cuts : \A c2 \in cuts : c <= c2
                   l == Utf8DecodeSplit(SubSeq(b, 1, k))
                   r == Utf8DecodeSplit(SubSeq(b, k + 1, Len(b)))
               IN IF l.ok /\ r.ok THEN Decoded(l.text \o r.text) ELSE Undecodable

\* bytes.decode(): strict UTF-8, raising UnicodeDecodeError on ill-formed input
Utf8Decode(b) == IF IsAscii(b) THEN Decoded(b) ELSE Utf8DecodeSplit(b)

(***************************************************************************)
(* Strings of the responses and messages: a string is the sequence of its *)
(* pieces, a literal piece L("...") or a text T(t) given by its code       *)
(* points; formatting concatenates pieces.                                 *)
(***************************************************************************)
L(str) == [lit |-> str, text |-> <<>>]
T(t) == [lit |-> "", text |-> t]

(***************************************************************************)
(* models.py: ShpblResponse, with the defaults of its fields               *)
(***************************************************************************)
ShpblResponse ==
  [success |-> FALSE, message |-> None, data |-> None, stdout |-> None,
   stderr |-> None, exit_code |-> None, internal_do_not_parse__ |-> FALSE,
   unparsed_str_response__ |-> None]

(***************************************************************************)
(* container.py                                                            *)
(***************************************************************************)
ContainerNames == {"backend", "frontend"}

\* container.py 16, 22-24
get_container_workdir(container_name) ==
  IF container_name = "backend" THEN "/backend"
  ELSE IF container_name = "frontend" THEN "/frontend"
  ELSE "/"

\* container.py 19
MAX_OUTPUT_LENGTH == 10000

\* "\n... [output truncated]"
TruncationMarker ==
  <<10, 46, 46, 46, 32, 91, 111, 117, 116, 112, 117, 116, 32,
    116, 114, 117, 110, 99, 97, 116, 101, 100, 93>>

\* container.py 60-65, for one stream
Truncate(text) ==
  IF Len(text) > MAX_OUTPUT_LENGTH
  THEN SubSeq(text, 1, MAX_OUTPUT_LENGTH) \o TruncationMarker
  ELSE text

Return(v) == [kind |-> "return", value |-> v]
Raise(e) == [kind |-> "raise", exc |-> e]
HTTPException(code, detail) ==
  [type |-> "HTTPException", status_code |-> code, detail |-> detail]
\* an exception raised by the docker client or by bytes.decode(), with str(e) = msg
Raised(type, msg) == [type |-> type, status_code |-> 0, detail |-> <<L(msg)>>]

\* container.py 45-54: what the try body meets before it has the output:
\* the answer of containers.get, then the answer of exec_run
RuntimeError(container_name, d) ==
  IF d.get = "APIError" THEN Some(Raised("APIError", d.msg))
  ELSE IF container_name \notin containers
    THEN Some(Raised("NotFound", "No such container"))
  ELSE IF d.run.kind = "NotFound" THEN Some(Raised("NotFound", "No such container"))
  ELSE IF d.run.kind = "APIError" THEN Some(Raised("APIError", d.run.msg))
  ELSE None

\* the except clauses taken in the order "except Exception" first
ExceptClausesGenericFirst(container_name, e) ==
  Raise(HTTPException(500, e.detail))

\* container.py 73-79: the except clauses
ExceptClauses(container_name, e) ==
  IF e.type = "NotFound"
  THEN Raise(HTTPException(404, <<L("Container '"), L(container_name), L("' not found")>>))
  ELSE Raise(HTTPException(500, e.detail))

\* one flag for both streams: each stream is cut to the cap and marked when
\* either of them is over it
ExecOutputJointFlag(container_name, run) ==
  LET out == IF run.stdout # <<>> THEN Utf8Decode(run.stdout) ELSE Decoded(<<>>)
      err == IF run.stderr # <<>> THEN Utf8Decode(run.stderr) ELSE Decoded(<<>>)
      Cut(text) == SubSeq(text, 1, Min(Len(text), MAX_OUTPUT_LENGTH)) \o TruncationMarker
      over == Len(out.text) > MAX_OUTPUT_LENGTH \/ Len(err.text) > MAX_OUTPUT_LENGTH
  IN IF ~out.ok \/ ~err.ok
     THEN ExceptClauses(container_name, Raised("UnicodeDecodeError", "invalid start byte"))
     ELSE Return([ShpblResponse EXCEPT
                    !.success = (run.exit_code = 0),
                    !.exit_code = Some(run.exit_code),
                    !.stdout = Some(<<T(IF over THEN Cut(out.text) ELSE out.text)>>),
                    !.stderr = Some(<<T(IF over THEN Cut(err.text) ELSE err.text)>>)])

\* container.py 56-72: decode, truncate, build the response
ExecOutput(container_name, run) ==
  LET out == IF run.stdout # <<>> THEN Utf8Decode(run.stdout) ELSE Decoded(<<>>)
      err == IF run.stderr # <<>> THEN Utf8Decode(run.stderr) ELSE Decoded(<<>>)
  IN IF ~out.ok \/ ~err.ok
     THEN ExceptClauses(container_name, Raised("UnicodeDecodeError", "invalid start byte"))
     ELSE Return([ShpblResponse EXCEPT
                    !.success = (run.exit_code = 0),
                    !.exit_code = Some(run.exit_code),
                    !.stdout = Some(<<T(Truncate(out.text))>>),
                    !.stderr = Some(<<T(Truncate(err.text))>>)])

\* container.py 27-79.  d is the runtime's answer to this call.
exec_in_container(container_name, command, d) ==
  LET e == RuntimeError(container_name, d)
  IN IF e # None THEN ExceptClauses(container_name, e[1])
     ELSE ExecOutput(container_name, d.run)

\* container.py 46-54: the exec_run call this invocation issues, if it gets that far
ExecRunCall(container_name, command, d) ==
  IF d.get = "ok" /\ container_name \in containers
  THEN <<[container |-> container_name,
          workdir |-> get_container_workdir(container_name),
          command |-> command,
          ran |-> (d.run.kind = "ran")]>>
  ELSE <<>>

\* the containers left when exec_run found the container gone
ContainersAfter(container_name, d) ==
  IF d.get = "ok" /\ container_name \in containers /\ d.run.kind = "NotFound"
  THEN containers \ {container_name}
  ELSE containers

(***************************************************************************)
(* The runtime's answers.                                                  *)
(***************************************************************************)
Ran(code, out, err) ==
  [kind |-> "ran", exit_code |-> code, stdout |-> out, stderr |-> err, msg |-> ""]
RunFails(kind, msg) ==
  [kind |-> kind, exit_code |-> 0, stdout |-> <<>>, stderr |-> <<>>, msg |-> msg]
Daemon(get, msg, run) == [get |-> get, msg |-> msg, run |-> run]

ApiErrors == {"connection refused", "OCI runtime exec failed"}
ExitCodes == {0, 1, 127}

\* output streams (bytes): empty, short, at the cap, over the cap, at the cap in
\* characters but over it in bytes, and bytes that are not UTF-8
Streams ==
  { <<>>,
    <<97, 10>>,
    Pad(97, MAX_OUTPUT_LENGTH),
    Pad(97, MAX_OUTPUT_LENGTH + 1),
    Pad(97, MAX_OUTPUT_LENGTH - 1) \o <<195, 169>>,
    <<255>> }

RunAnswers(codes, outs, errs) ==
  {Ran(c, o, e) : c \in codes, o \in outs, e \in errs}
    \cup {RunFails("NotFound", "No such container")}
    \cup {RunFails("APIError", m) : m \in ApiErrors}

Daemons(runs) ==
  {Daemon("ok", "", r) : r \in runs}
    \cup {Daemon("APIError", m, RunFails("APIError", m)) : m \in ApiErrors}

(***************************************************************************)
(* Specification of exec_in_container: the runtime's state and answer and  *)
(* the arguments are drawn, the function is called once.                   *)
(***************************************************************************)
MergeIdle ==
  /\ line_numbers = <<>>
  /\ context_lines = 0
  /\ merged = None
  /\ loop = LoopIdle

\* no file system is modelled where the commands are opaque
NoFiles ==
  /\ files = <<>>
  /\ files_before = <<>>
  /\ written = <<>>

\* "ls"
ExecCommands == {<<108, 115>>}

ExecInit ==
  /\ MergeIdle
  /\ NoFiles
  /\ containers \in SUBSET ContainerNames
  /\ daemon \in Daemons(RunAnswers(ExitCodes, Streams, Streams))
  /\ request \in {[op |-> "exec", container_name |-> c, command |-> cmd] :
                     c \in ContainerNames, cmd \in ExecCommands}
  /\ exec_result = NotCalled
  /\ execs = <<>>
  /\ response = NoResponse

CallExec ==
  /\ request.op = "exec"
  /\ exec_result = NotCalled
  /\ exec_result' = exec_in_container(request.container_name, request.command, daemon)
  /\ execs' = execs \o ExecRunCall(request.container_name, request.command, daemon)
  /\ containers' = ContainersAfter(request.container_name, daemon)
  /\ UNCHANGED <<daemon, request, response>>
  /\ UNCHANGED merge_vars
  /\ UNCHANGED file_vars

ExecNext == CallExec

SpecExec == ExecInit /\ [][ExecNext]_vars

ExecCalled == exec_result.kind # "not called"
\* the command was executed by the runtime and its exit code and output came back
CommandRan == \E i \in 1..Len(execs) : execs[i].ran
StdoutChars == Utf8Decode(daemon.run.stdout)
StderrChars == Utf8Decode(daemon.run.stderr)

\* C6: when the command's stdout is 10,001 characters long, the returned stdout
\* is its first 10,000 characters followed by the truncation marker, and the
\* result carries truncated = true; no stream is returned cut without that flag.
C6_TruncationFlagged ==
  (ExecCalled /\ CommandRan /\ exec_result.kind = "return") =>
    /\ (StdoutChars.ok /\ Len(StdoutChars.text) = MAX_OUTPUT_LENGTH + 1) =>
         exec_result.value.stdout =
           Some(<<T(SubSeq(StdoutChars.text, 1, MAX_OUTPUT_LENGTH) \o TruncationMarker)>>)
    /\ (Len(StdoutChars.text) > MAX_OUTPUT_LENGTH
          \/ Len(StderrChars.text) > MAX_OUTPUT_LENGTH) =>
         /\ "truncated" \in DOMAIN exec_result.value
         /\ exec_result.value.truncated = TRUE

\* the stream as the claim has it returned: unchanged up to the cap, else its
\* first 10,000 characters and the marker
Capped(text) ==
  IF Len(text) <= 10000 THEN text
  ELSE [i \in 1..(10000 + Len(TruncationMarker)) |->
          IF i <= 10000 THEN text[i] ELSE TruncationMarker[i - 10000]]

\* C22: in every result exec_in_container returns, stdout is the command's
\* stdout unchanged when it has at most 10,000 characters and its first 10,000
\* characters followed by the marker when it has more; the same holds for
\* stderr; each stream's returned text depends on that stream alone.
C22_StreamsTruncatedIndependently ==
  (ExecCalled /\ CommandRan /\ exec_result.kind = "return") =>
    /\ exec_result.value.stdout = Some(<<T(Capped(StdoutChars.text))>>)
    /\ exec_result.value.stderr = Some(<<T(Capped(StderrChars.text))>>)

\* C22 witness: stdout was over the cap and cut, stderr was short and came
\* back as it was.
C22_Witness ==
  /\ ExecCalled
  /\ exec_result.kind = "return"
  /\ Len(StdoutChars.text) = MAX_OUTPUT_LENGTH + 1
  /\ StderrChars.text = <<97, 10>>
  /\ Len(exec_result.value.stdout[1][1].text) = MAX_OUTPUT_LENGTH + Len(TruncationMarker)
  /\ exec_result.value.stderr = Some(<<T(<<97, 10>>)>>)

\* C9: a command that was run is reported as a value whatever its exit code:
\* exec_in_container returns a result whose exit_code is the command's exit code
\* and whose success is true exactly when that exit code is 0.
C9_ExitCodeReturnedAsValue ==
  (ExecCalled /\ CommandRan) =>
    /\ exec_result.kind = "return"
    /\ exec_result.value.exit_code = Some(daemon.run.exit_code)
    /\ exec_result.value.success = (daemon.run.exit_code = 0)

\* C10: when the named container does not exist, exec_in_container raises the
\* 404 HTTPException and no command is run; when the runtime fails in another
\* way, it raises the 500 HTTPException whose detail is the underlying message.
C10_NotFoundAndExecutionError ==
  ExecCalled =>
    /\ (daemon.get = "ok" /\ request.container_name \notin containers) =>
         /\ exec_result = Raise(HTTPException(404,
              <<L("Container '"), L(request.container_name), L("' not found")>>))
         /\ ~CommandRan
    /\ daemon.get = "APIError" =>
         /\ exec_result = Raise(HTTPException(500, <<L(daemon.msg)>>))
         /\ ~CommandRan
    /\ (daemon.get = "ok" /\ request.container_name \in containers
          /\ daemon.run.kind = "APIError") =>
         /\ exec_result = Raise(HTTPException(500, <<L(daemon.run.msg)>>))
         /\ ~CommandRan

\* C10 witness: the call named a container that does not exist, while the other
\* one does, and raised the 404 error.
C10_Witness ==
  /\ ExecCalled
  /\ daemon.get = "ok"
  /\ request.container_name = "backend"
  /\ containers = {"frontend"}
  /\ exec_result.kind = "raise"
  /\ exec_result.exc.status_code = 404

(***************************************************************************)
(* models.py: the deny-list of RunCommandRequest.  A compiled pattern is   *)
(* the sequence of its elements: a literal (matched ignoring case), \b, \s+ *)
(***************************************************************************)
Literal(t) == [k |-> "literal", s |-> t]
WordBoundary == [k |-> "\\b", s |-> <<>>]
Whitespace == [k |-> "\\s+", s |-> <<>>]

\* models.py 11-34
BLOCKED_COMMAND_PATTERNS == <<
    <<WordBoundary, Literal(<<101, 110, 118>>), WordBoundary>>,   \* \benv\b
    <<WordBoundary, Literal(<<112, 114, 105, 110, 116, 101, 110, 118>>), WordBoundary>>,   \* \bprintenv\b
    <<WordBoundary, Literal(<<99, 97, 116>>), Whitespace, Literal(<<46, 101, 110, 118>>), WordBoundary>>,   \* \bcat\s+\.env\b
    <<Literal(<<47, 101, 116, 99, 47, 115, 104, 97, 100, 111, 119>>)>>,   \* /etc/shadow
    <<Literal(<<47, 101, 116, 99, 47, 112, 97, 115, 115, 119, 100>>)>>,   \* /etc/passwd
    <<WordBoundary, Literal(<<100, 111, 99, 107, 101, 114>>), WordBoundary>>,   \* \bdocker\b
    <<WordBoundary, Literal(<<99, 117, 114, 108>>), WordBoundary>>,   \* \bcurl\b
    <<WordBoundary, Literal(<<119, 103, 101, 116>>), WordBoundary>>,   \* \bwget\b
    <<WordBoundary, Literal(<<110, 99>>), WordBoundary>>,   \* \bnc\b
    <<WordBoundary, Literal(<<110, 99, 97, 116>>), WordBoundary>>,   \* \bncat\b
    <<WordBoundary, Literal(<<110, 101, 116, 99, 97, 116>>), WordBoundary>>,   \* \bnetcat\b
    <<WordBoundary, Literal(<<115, 115, 104>>), WordBoundary>>,   \* \bssh\b
    <<WordBoundary, Literal(<<115, 99, 112>>), WordBoundary>>,   \* \bscp\b
    <<WordBoundary, Literal(<<110, 115, 101, 110, 116, 101, 114>>), WordBoundary>>,   \* \bnsenter\b
    <<WordBoundary, Literal(<<115, 111, 99, 97, 116>>), WordBoundary>>,   \* \bsocat\b
    <<Literal(<<46, 46, 47, 46, 46>>)>>,   \* \.\./\.\.
    <<Literal(<<47, 112, 114, 111, 99>>), WordBoundary>>,   \* /proc\b
    <<Literal(<<47, 115, 121, 115>>), WordBoundary>>,   \* /sys\b
    <<Literal(<<47, 118, 97, 114, 47, 114, 117, 110, 47, 100, 111, 99, 107, 101, 114, 46, 115, 111, 99, 107>>)>>   \* /var/run/docker\.sock
  >>

\* Python's re on str, for the ASCII characters the commands are drawn from:
\* \w is [A-Za-z0-9_], \s is [ \t\n\r\f\v] and the separators 28..31
IsWordChar(c) ==
  (c >= 48 /\ c <= 57) \/ (c >= 65 /\ c <= 90) \/ (c >= 97 /\ c <= 122) \/ c = 95
IsSpace(c) == (c >= 9 /\ c <= 13) \/ (c >= 28 /\ c <= 32)
Lower(c) == IF c >= 65 /\ c <= 90 THEN c + 32 ELSE c

\* a \b that holds at every position
AtWordBoundaryAnywhere(v, pos) == TRUE

\* \b at the position before character pos (pos in 1..Len+1)
AtWordBoundary(v, pos) ==
  LET before == pos - 1 >= 1 /\ IsWordChar(v[pos - 1])
      after == pos <= Len(v) /\ IsWordChar(v[pos])
  IN before # after

\* the literal, compared exactly (re.compile without re.IGNORECASE)
LiteralAtCaseSensitive(t, v, pos) ==
  /\ pos + Len(t) - 1 <= Len(v)
  /\ \A i \in 1..Len(t) : v[pos + i - 1] = t[i]

\* re.IGNORECASE: the literal matches whatever the case of the command's letters
LiteralAt(t, v, pos) ==
  /\ pos + Len(t) - 1 <= Len(v)
  /\ \A i \in 1..Len(t) : Lower(v[pos + i - 1]) = t[i]

\* the elements of pat match v from position pos on
RECURSIVE MatchFrom(_, _, _)
MatchFrom(pat, v, pos) ==
  IF pat = <<>> THEN TRUE
  ELSE LET e == Head(pat)
       IN IF e.k = "\\b" THEN AtWordBoundary(v, pos) /\ MatchFrom(Tail(pat), v, pos)
          ELSE IF e.k = "\\s+"
            THEN \E n \in 1..(Len(v) - pos + 1) :
                   /\ \A i \in 0..(n - 1) : IsSpace(v[pos + i])
                   /\ MatchFrom(Tail(pat), v, pos + n)
          ELSE LiteralAt(e.s, v, pos) /\ MatchFrom(Tail(pat), v, pos + Len(e.s))

\* pattern.search(v)
Search(pat, v) == \E pos \in 1..(Len(v) + 1) : MatchFrom(pat, v, pos)

\* models.py 120-128: the index of the first pattern that matches, 0 when the
\* command passes
validate_command_safety(v) ==
  LET hits == {i \in 1..Len(BLOCKED_COMMAND_PATTERNS) : Search(BLOCKED_COMMAND_PATTERNS[i], v)}
  IN IF hits = {} THEN 0 ELSE CHOOSE i \in hits : \A j \in hits : i <= j

(***************************************************************************)
(* routers/workspace_service.py: POST /workspace/run-command               *)
(***************************************************************************)
\* the 422 response of the framework when the request model rejects the body
ValidationError(field) ==
  [kind |-> "validation error", status_code |-> 422, field |-> field]
Envelope(body) == [kind |-> "envelope", status_code |-> 200, body |-> body]

\* str(e) of the exceptions that reach a handler
Str(e) ==
  IF e.type = "HTTPException"
  THEN <<L(IF e.status_code = 404 THEN "404" ELSE "500"), L(": ")>> \o e.detail
  ELSE e.detail

\* workspace_service.py 262-273
run_command_in_container(container_name, command, d) ==
  LET result == exec_in_container(container_name, command, d)
  IN IF result.kind = "return" THEN Envelope(result.value)
     ELSE Envelope([ShpblResponse EXCEPT
                      !.success = FALSE,
                      !.message = Some(<<L("Failed to execute command: ")>> \o Str(result.exc)),
                      !.data = Some([error |-> Str(result.exc)]),
                      !.stderr = Some(Str(result.exc))])

(***************************************************************************)
(* Specification of RunCommand: requests are validated by the request      *)
(* model, then handled; the response is delivered before the next request. *)
(***************************************************************************)
ToUpper(t) == [i \in 1..Len(t) |-> IF t[i] >= 97 /\ t[i] <= 122 THEN t[i] - 32 ELSE t[i]]
\* every second letter in upper case
MixedCase(t) ==
  [i \in 1..Len(t) |-> IF i % 2 = 1 /\ t[i] >= 97 /\ t[i] <= 122 THEN t[i] - 32 ELSE t[i]]

\* the words the deny-list names, to be matched as whole words
DenyWords ==
  { <<101, 110, 118>>,                          \* env
    <<112, 114, 105, 110, 116, 101, 110, 118>>, \* printenv
    <<100, 111, 99, 107, 101, 114>>,            \* docker
    <<99, 117, 114, 108>>,                      \* curl
    <<119, 103, 101, 116>>,                     \* wget
    <<110, 99>>,                                \* nc
    <<110, 99, 97, 116>>,                       \* ncat
    <<110, 101, 116, 99, 97, 116>>,             \* netcat
    <<115, 115, 104>>,                          \* ssh
    <<115, 99, 112>>,                           \* scp
    <<110, 115, 101, 110, 116, 101, 114>>,      \* nsenter
    <<115, 111, 99, 97, 116>> }                 \* socat

\* the texts the deny-list names, to be matched wherever they occur
DenySubstrings ==
  { <<47, 101, 116, 99, 47, 115, 104, 97, 100, 111, 119>>,   \* /etc/shadow
    <<47, 101, 116, 99, 47, 112, 97, 115, 115, 119, 100>>,   \* /etc/passwd
    <<46, 46, 47, 46, 46>>,                                  \* ../..
    <<47, 118, 97, 114, 47, 114, 117, 110, 47, 100, 111, 99, 107, 101, 114,
      46, 115, 111, 99, 107>> }                              \* /var/run/docker.sock

\* the directories the deny-list names, to be matched where the name ends
DenyDirectories ==
  { <<47, 112, 114, 111, 99>>,   \* /proc
    <<47, 115, 121, 115>> }      \* /sys

\* commands that match no pattern by themselves
BenignCores ==
  { <<108, 115>>,                                            \* ls
    <<100, 111, 99, 107, 101, 114, 102, 105, 108, 101, 95,
      104, 101, 108, 112, 101, 114, 115>>,                   \* dockerfile_helpers
    <<118, 101, 110, 118>>,                                  \* venv
    <<99, 97, 116, 32, 9, 46, 101, 110, 118, 115>> }         \* "cat \t.envs"

CommandCores ==
  LET named == DenyWords \cup DenySubstrings \cup DenyDirectories
  IN named \cup {ToUpper(t) : t \in named} \cup {MixedCase(t) : t \in named}
       \cup BenignCores

\* "", " ", "_", "x", "ls "
CommandPrefixes == {<<>>, <<32>>, <<95>>, <<120>>, <<108, 115, 32>>}
\* "", " ", "_", "x", "/"
CommandSuffixes == {<<>>, <<32>>, <<95>>, <<120>>, <<47>>}

Commands == {p \o c \o x : p \in CommandPrefixes, c \in CommandCores, x \in CommandSuffixes}

\* container_name: Literal["backend", "frontend"]; "db" is a name the model rejects
RequestedContainers == ContainerNames \cup {"db"}

\* "ok\n" on stdout, "sh: not found\n"-like text on stderr
RunDaemons ==
  Daemons(RunAnswers({0, 1}, {<<111, 107, 10>>}, {<<>>, <<101, 114, 114, 10>>}))

RunInit ==
  /\ MergeIdle
  /\ NoFiles
  /\ containers \in SUBSET ContainerNames
  /\ daemon = NoDaemon
  /\ request = NoRequest
  /\ exec_result = NotCalled
  /\ execs = <<>>
  /\ response = NoResponse

\* the request model refuses the body: the handler is not entered
RunCommandRefused(container_name, command, passed) ==
  /\ response' = ValidationError(IF passed THEN "container_name" ELSE "command")
  /\ UNCHANGED <<containers, daemon, exec_result, execs>>

\* workspace_service.py 251-273, with the runtime answering d
RunCommandHandled(container_name, command, d) ==
  /\ response' = run_command_in_container(container_name, command, d)
  /\ exec_result' = exec_in_container(container_name, command, d)
  /\ execs' = ExecRunCall(container_name, command, d)
  /\ containers' = ContainersAfter(container_name, d)
  /\ daemon' = d

\* models.py 112-128 and workspace_service.py 251-273, for a command of
\* commands and an answer of daemons
RunCommandOf(commands, daemons) ==
  /\ request = NoRequest
  /\ \E container_name \in RequestedContainers, command \in commands :
       /\ request' = [op |-> "run-command", container_name |-> container_name,
                      command |-> command]
       /\ LET passed == validate_command_safety(command) = 0
          IN IF container_name \in ContainerNames /\ passed
             THEN \E d \in daemons : RunCommandHandled(container_name, command, d)
             ELSE RunCommandRefused(container_name, command, passed)
  /\ UNCHANGED merge_vars
  /\ UNCHANGED file_vars

\* POST /workspace/run-command
RunCommand == RunCommandOf(Commands, RunDaemons)

\* the response has been sent; the service keeps nothing of the request
Deliver ==
  /\ request # NoRequest
  /\ request' = NoRequest
  /\ response' = NoResponse
  /\ exec_result' = NotCalled
  /\ execs' = <<>>
  /\ daemon' = NoDaemon
  /\ files_before' = files
  /\ UNCHANGED <<containers, files, written>>
  /\ UNCHANGED merge_vars

RunNext ==
  \/ RunCommand
  \/ Deliver

SpecRun == RunInit /\ [][RunNext]_vars

\* the command holds word w as a whole word, in any letter case: an occurrence
\* of w with no letter, digit or underscore next to it on either side
HasWholeWord(v, w) ==
  \E i \in 1..(Len(v) - Len(w) + 1) :
    /\ [j \in 1..Len(w) |-> Lower(v[i + j - 1])] = w
    /\ (i = 1 \/ ~IsWordChar(v[i - 1]))
    /\ (i + Len(w) - 1 = Len(v) \/ ~IsWordChar(v[i + Len(w)]))

\* the command holds the text t, in any letter case
HasSubstring(v, t) ==
  \E i \in 1..(Len(v) - Len(t) + 1) : [j \in 1..Len(t) |-> Lower(v[i + j - 1])] = t

\* the command names the directory t: the text t not continued by a letter,
\* digit or underscore
HasDirectory(v, t) ==
  \E i \in 1..(Len(v) - Len(t) + 1) :
    /\ [j \in 1..Len(t) |-> Lower(v[i + j - 1])] = t
    /\ (i + Len(t) - 1 = Len(v) \/ ~IsWordChar(v[i + Len(t)]))

Denied(v) ==
  \/ \E w \in DenyWords : HasWholeWord(v, w)
  \/ \E t \in DenySubstrings : HasSubstring(v, t)
  \/ \E t \in DenyDirectories : HasDirectory(v, t)

RunRequested == request.op = "run-command"

\* C5: a RunCommand request whose command holds a deny-listed word as a whole
\* word (curl, wget, docker, env, printenv, ssh, scp, nc, socat, nsenter, ...),
\* the text /etc/passwd, /etc/shadow, ../.. or the Docker socket path, or the
\* directory /proc or /sys, in any letter case, is answered with a validation
\* error and no exec is issued to any container.
C5_DeniedCommandRejected ==
  (RunRequested /\ Denied(request.command)) =>
    /\ response.kind = "validation error"
    /\ exec_result = NotCalled
    /\ execs = <<>>

\* C5 witness: a command with curl in upper case between other words, sent to
\* an existing container, was rejected.
C5_Witness ==
  /\ RunRequested
  /\ request.command = <<108, 115, 32, 67, 85, 82, 76, 32>>
  /\ request.container_name \in containers
  /\ response.kind = "validation error"

\* the command holds the deny-listed word w only inside longer words: w occurs,
\* and every occurrence has a letter, digit or underscore next to it
EmbeddedOnly(v, w) == HasSubstring(v, w) /\ ~HasWholeWord(v, w)

\* C21: a RunCommand request for a valid container whose command holds a
\* deny-listed word only as part of a longer word (a run of letters, digits and
\* underscores, as in dockerfile_helpers or venv), and nothing else the
\* deny-list names, passes validation: the handler is entered, the call to the
\* runtime is made and, when the container exists, the command itself is the
\* one handed to exec_run.
C21_EmbeddedWordAccepted ==
  (/\ RunRequested
   /\ request.container_name \in ContainerNames
   /\ \E w \in DenyWords : EmbeddedOnly(request.command, w)
   /\ ~Denied(request.command)) =>
    /\ response.kind = "envelope"
    /\ exec_result # NotCalled
    /\ (daemon.get = "ok" /\ request.container_name \in containers) =>
         /\ Len(execs) = 1
         /\ execs[1].command = request.command
         /\ execs[1].container = request.container_name

\* C21 witness: "ls dockerfile_helpers/" was sent to an existing container and
\* executed there.
C21_Witness ==
  /\ RunRequested
  /\ request.command = <<108, 115, 32, 100, 111, 99, 107, 101, 114, 102, 105, 108,
                         101, 95, 104, 101, 108, 112, 101, 114, 115, 47>>
  /\ request.container_name \in containers
  /\ response.kind = "envelope"
  /\ CommandRan

(***************************************************************************)
(* The containers' files.  A file is named by its container and its path   *)
(* under the container's working directory, a sequence of segments; its    *)
(* content is a sequence of bytes.                                         *)
(***************************************************************************)
RelPaths == {<<"app.py">>}
FileKeys == ContainerNames \X RelPaths
\* the request's file_path: the container's name, "/", the path
FilePaths == {<<k[1]>> \o k[2] : k \in FileKeys}

RECURSIVE JoinPath(_)
JoinPath(rel) ==
  IF Len(rel) <= 1 THEN [i \in 1..Len(rel) |-> L(rel[i])]
  ELSE <<L(rel[1]), L("/")>> \o JoinPath(Tail(rel))

(***************************************************************************)
(* base64, as base64.b64encode writes it and base64 -d reads it            *)
(***************************************************************************)
B64Char(v) ==
  IF v < 26 THEN 65 + v
  ELSE IF v < 52 THEN 71 + v
  ELSE IF v < 62 THEN v - 4
  ELSE IF v = 62 THEN 43 ELSE 47

B64Value(c) ==
  IF c >= 65 /\ c <= 90 THEN c - 65
  ELSE IF c >= 97 /\ c <= 122 THEN c - 71
  ELSE IF c >= 48 /\ c <= 57 THEN c + 4
  ELSE IF c = 43 THEN 62 ELSE 63

Base64Encode(b) ==
  LET n3 == Len(b)
      At(i) == IF i <= n3 THEN b[i] ELSE 0
  IN [j \in 1..(4 * ((n3 + 2) \div 3)) |->
        LET k == (j - 1) \div 4
            pos == (j - 1) % 4
        IN IF pos = 0 THEN B64Char(At(3 * k + 1) \div 4)
           ELSE IF pos = 1
             THEN B64Char((At(3 * k + 1) % 4) * 16 + At(3 * k + 2) \div 16)
           ELSE IF pos = 2
             THEN (IF 3 * k + 2 > n3 THEN 61
                   ELSE B64Char((At(3 * k + 2) % 16) * 4 + At(3 * k + 3) \div 64))
           ELSE (IF 3 * k + 3 > n3 THEN 61 ELSE B64Char(At(3 * k + 3) % 64))] \o <<>>

Base64Decode(e) ==
  LET m == Len(e)
      pad == IF m = 0 THEN 0 ELSE IF e[m - 1] = 61 THEN 2 ELSE IF e[m] = 61 THEN 1 ELSE 0
      V(i) == IF e[i] = 61 THEN 0 ELSE B64Value(e[i])
  IN [j \in 1..(3 * (m \div 4) - pad) |->
        LET k == (j - 1) \div 3
            pos == (j - 1) % 3
        IN IF pos = 0 THEN V(4 * k + 1) * 4 + V(4 * k + 2) \div 16
           ELSE IF pos = 1 THEN (V(4 * k + 2) % 16) * 16 + V(4 * k + 3) \div 4
           ELSE (V(4 * k + 3) % 4) * 64 + V(4 * k + 4)] \o <<>>

(***************************************************************************)
(* shlex.quote, and the words sh makes of the text of an argument          *)
(***************************************************************************)
\* the characters shlex.quote leaves as they are: [A-Za-z0-9_@%+=:,./-]
SafeChar(c) == IsWordChar(c) \/ c \in {64, 37, 43, 61, 58, 44, 46, 47, 45}

\* s.replace("'", "'\"'\"'")
RECURSIVE EscapeQuotes(_)
EscapeQuotes(s) ==
  IF s = <<>> THEN <<>>
  ELSE (IF Head(s) = 39 THEN <<39, 34, 39, 34, 39>> ELSE <<Head(s)>>)
         \o EscapeQuotes(Tail(s))

\* shlex.quote(s): '' for the empty text, s itself when every character is
\* safe, else s between single quotes with its single quotes escaped
shlex_quote(s) ==
  IF s = <<>> THEN <<39, 39>>
  ELSE IF \A i \in 1..Len(s) : SafeChar(s[i]) THEN s
  ELSE <<39>> \o EscapeQuotes(s) \o <<39>>

\* sh reading text from character i on: outside quotes a blank ends the
\* word, ' and " open a quoted part that runs to the next ' or "; a quoted
\* part left open at the end of the text is a syntax error
RECURSIVE ShellParse(_, _, _, _, _, _)
ShellParse(text, i, mode, word, inword, fields) ==
  IF i > Len(text)
  THEN (IF mode # "plain" THEN [ok |-> FALSE, fields |-> <<>>]
        ELSE [ok |-> TRUE, fields |-> IF inword THEN Append(fields, word) ELSE fields])
  ELSE IF mode = "single"
    THEN (IF text[i] = 39 THEN ShellParse(text, i + 1, "plain", word, TRUE, fields)
          ELSE ShellParse(text, i + 1, "single", Append(word, text[i]), TRUE, fields))
  ELSE IF mode = "double"
    THEN (IF text[i] = 34 THEN ShellParse(text, i + 1, "plain", word, TRUE, fields)
          ELSE ShellParse(text, i + 1, "double", Append(word, text[i]), TRUE, fields))
  ELSE IF text[i] = 39 THEN ShellParse(text, i + 1, "single", word, TRUE, fields)
  ELSE IF text[i] = 34 THEN ShellParse(text, i + 1, "double", word, TRUE, fields)
  ELSE IF text[i] \in {32, 9, 10}
    THEN ShellParse(text, i + 1, "plain", <<>>, FALSE,
                    IF inword THEN Append(fields, word) ELSE fields)
  ELSE ShellParse(text, i + 1, "plain", Append(word, text[i]), TRUE, fields)

\* the words sh makes of the text
ShellWords(text) == ShellParse(text, 1, "plain", <<>>, FALSE, <<>>)

(***************************************************************************)
(* The shell commands the helpers build, and what sh -c does with them in  *)
(* a container whose files are fs.                                         *)
(***************************************************************************)
\* file_manager.py 32: f"nl -ba {file_path} | sed -n '{start_line},{end_line}p'"
NlSedCommand(rel, start, end) ==
  [tool |-> "nl | sed", path |-> rel, quoted |-> FALSE,
   start |-> start, end |-> end, encoded |-> <<>>]

\* file_manager.py 34: f"sed -n '{start_line},{end_line}p' {file_path}"
SedCommand(rel, start, end) ==
  [tool |-> "sed", path |-> rel, quoted |-> FALSE,
   start |-> start, end |-> end, encoded |-> <<>>]

\* file_manager.py 63: f"echo {encoded} | base64 -d > {shlex.quote(file_path)}"
WriteCommand(rel, encoded) ==
  [tool |-> "echo | base64 -d >", path |-> rel, quoted |-> TRUE,
   start |-> 0, end |-> None, encoded |-> encoded]

\* the positions of the newlines of b
Newlines(b) == {i \in 1..Len(b) : b[i] = 10}

\* the number of lines of b; a last line without newline counts
LineCount(b) ==
  Cardinality(Newlines(b)) + (IF b # <<>> /\ b[Len(b)] # 10 THEN 1 ELSE 0)

\* the position of the last byte of line k of b, k in 1..LineCount(b)
LineEnd(b, k) ==
  LET nl == Newlines(b)
  IN IF k <= Cardinality(nl)
     THEN CHOOSE i \in nl : Cardinality({j \in nl : j < i}) = k - 1
     ELSE Len(b)

LineStart(b, k) == IF k = 1 THEN 1 ELSE LineEnd(b, k - 1) + 1

\* sed -n 'start,endp': the lines start..end of the input, as they are; the
\* single line start when end is a smaller number; end = None is "$"
SedPrint(b, start, end) ==
  LET n == LineCount(b)
      last == IF end = None THEN n
              ELSE IF end[1] < start THEN start
              ELSE Min(end[1], n)
  IN IF start > n THEN <<>>
     ELSE SubSeq(b, LineStart(b, start), LineEnd(b, last))

RECURSIVE Digits(_)
Digits(n) == IF n < 10 THEN <<48 + n>> ELSE Digits(n \div 10) \o <<48 + (n % 10)>>

\* nl -ba: every line numbered, the number right-justified in 6 columns and
\* followed by a TAB; the last line is ended by a newline if it had none
RECURSIVE NumberLines(_, _, _)
NumberLines(b, k, n) ==
  IF k > n THEN <<>>
  ELSE LET line == SubSeq(b, LineStart(b, k), LineEnd(b, k))
           digits == Digits(k)
       IN Pad(32, 6 - Len(digits)) \o digits \o <<9>> \o line
            \o (IF line[Len(line)] = 10 THEN <<>> ELSE <<10>>)
            \o NumberLines(b, k + 1, n)

(***************************************************************************)
(* Names and paths as texts.  A path is a sequence of segments, a segment  *)
(* a name; Chars gives the characters of the names the model uses.         *)
(***************************************************************************)
Chars(name) ==
  CASE name = "backend" -> <<98, 97, 99, 107, 101, 110, 100>>
    [] name = "frontend" -> <<102, 114, 111, 110, 116, 101, 110, 100>>
    [] name = "db" -> <<100, 98>>
    [] name = "app.py" -> <<97, 112, 112, 46, 112, 121>>
    [] name = "src" -> <<115, 114, 99>>
    [] name = "build" -> <<98, 117, 105, 108, 100>>
    [] name = "node_modules" -> <<110, 111, 100, 101, 95, 109, 111, 100, 117, 108, 101, 115>>
    [] name = ".cache" -> <<46, 99, 97, 99, 104, 101>>
    [] name = "package-lock.json" -> <<112, 97, 99, 107, 97, 103, 101, 45, 108, 111, 99, 107, 46, 106, 115, 111, 110>>
    [] name = "migrations" -> <<109, 105, 103, 114, 97, 116, 105, 111, 110, 115>>
    [] name = "0001.py" -> <<48, 48, 48, 49, 46, 112, 121>>
    [] name = "notes.txt" -> <<110, 111, 116, 101, 115, 46, 116, 120, 116>>
    [] name = "yarn.lock" -> <<121, 97, 114, 110, 46, 108, 111, 99, 107>>
    [] name = ".DS_Store" -> <<46, 68, 83, 95, 83, 116, 111, 114, 101>>
    [] name = "thumbs.db" -> <<116, 104, 117, 109, 98, 115, 46, 100, 98>>
    [] name = "my file.py" -> <<109, 121, 32, 102, 105, 108, 101, 46, 112, 121>>
    [] name = "my" -> <<109, 121>>
    [] name = "file.py" -> <<102, 105, 108, 101, 46, 112, 121>>
    [] name = "it's.py" -> <<105, 116, 39, 115, 46, 112, 121>>
    [] name = "manage.py" -> <<109, 97, 110, 97, 103, 101, 46, 112, 121>>
    [] name = ".eslintrc.json" -> <<46, 101, 115, 108, 105, 110, 116, 114, 99, 46, 106, 115, 111, 110>>
    [] name = "e3b0c44298fc1c149afbf4c8996fb92427ae41e4649b934ca495991b7852b855" ->
         <<101, 51, 98, 48, 99, 52, 52, 50, 57, 56, 102, 99, 49, 99, 49, 52, 
           57, 97, 102, 98, 102, 52, 99, 56, 57, 57, 54, 102, 98, 57, 50, 52, 
           50, 55, 97, 101, 52, 49, 101, 52, 54, 52, 57, 98, 57, 51, 52, 99, 
           97, 52, 57, 53, 57, 57, 49, 98, 55, 56, 53, 50, 98, 56, 53, 53>>
    [] OTHER -> <<63>>

\* the names the model uses
Names ==
  {"backend", "frontend", "db", "app.py", "src", "build", "node_modules", ".cache",
   "package-lock.json", "migrations", "0001.py", "notes.txt", "yarn.lock",
   ".DS_Store", "thumbs.db", "my file.py", "my", "file.py", "it's.py", "manage.py",
   ".eslintrc.json",
   "e3b0c44298fc1c149afbf4c8996fb92427ae41e4649b934ca495991b7852b855"}

\* the name that is written t; "?" for a text that is no name of the model
NameOf(t) ==
  IF \E name \in Names : Chars(name) = t
  THEN CHOOSE name \in Names : Chars(name) = t
  ELSE "?"

\* the segments joined by "/"
RECURSIVE PathText(_)
PathText(path) ==
  IF path = <<>> THEN <<>>
  ELSE IF Len(path) = 1 THEN Chars(path[1])
  ELSE Chars(path[1]) \o <<47>> \o PathText(Tail(path))

\* text.split(sep) for a separator of one character
RECURSIVE Split(_, _)
Split(text, sep) ==
  LET at == {i \in 1..Len(text) : text[i] = sep}
  IN IF at = {} THEN <<text>>
     ELSE LET i == CHOOSE p \in at : \A q \in at : p <= q
          IN <<SubSeq(text, 1, i - 1)>> \o Split(SubSeq(text, i + 1, Len(text)), sep)

\* the path a word of a command line names
NamesOf(parts) == [i \in 1..Len(parts) |-> NameOf(parts[i])] \o <<>>
PathOf(word) == IF word = <<>> THEN <<>> ELSE NamesOf(Split(word, 47))

\* text.strip(): without its leading and trailing whitespace
Strip(text) ==
  LET keep == {i \in 1..Len(text) : ~IsSpace(text[i])}
  IN IF keep = {} THEN <<>>
     ELSE SubSeq(text, CHOOSE i \in keep : \A j \in keep : i <= j,
                       CHOOSE i \in keep : \A j \in keep : i >= j)

\* text.lstrip(chars): without its leading characters that are in chars
LStrip(text, chars) ==
  LET keep == {i \in 1..Len(text) : text[i] \notin chars}
  IN IF keep = {} THEN <<>>
     ELSE SubSeq(text, CHOOSE i \in keep : \A j \in keep : i <= j, Len(text))

\* text.splitlines(), for texts whose only line boundaries are "\n" and "\r"
RECURSIVE SplitLines(_)
SplitLines(text) ==
  LET at == {i \in 1..Len(text) : text[i] = 10 \/ text[i] = 13}
  IN IF text = <<>> THEN <<>>
     ELSE IF at = {} THEN <<text>>
     ELSE LET i == CHOOSE p \in at : \A q \in at : p <= q
              next == IF text[i] = 13 /\ i < Len(text) /\ text[i + 1] = 10
                      THEN i + 2 ELSE i + 1
          IN <<SubSeq(text, 1, i - 1)>> \o SplitLines(SubSeq(text, next, Len(text)))

\* int(text): the value of a text of decimal digits with an optional sign,
\* None for a text int() refuses with ValueError
RECURSIVE DigitsValue(_)
DigitsValue(t) ==
  IF Len(t) = 1 THEN t[1] - 48
  ELSE 10 * DigitsValue(SubSeq(t, 1, Len(t) - 1)) + (t[Len(t)] - 48)

ParseInt(text) ==
  LET t == Strip(text)
      signed == t # <<>> /\ (t[1] = 43 \/ t[1] = 45)
      digits == IF signed THEN Tail(t) ELSE t
  IN IF digits = <<>> \/ \E i \in 1..Len(digits) : digits[i] < 48 \/ digits[i] > 57
     THEN None
     ELSE Some(IF signed /\ t[1] = 45 THEN 0 - DigitsValue(digits) ELSE DigitsValue(digits))

\* fnmatch(name, pattern) for patterns whose only special character is "*"
RECURSIVE Fnmatch(_, _)
Fnmatch(name, pattern) ==
  IF pattern = <<>> THEN name = <<>>
  ELSE IF pattern[1] = 42
    THEN \E k \in 0..Len(name) : Fnmatch(SubSeq(name, k + 1, Len(name)), Tail(pattern))
  ELSE name # <<>> /\ name[1] = pattern[1] /\ Fnmatch(Tail(name), Tail(pattern))

(***************************************************************************)
(* helpers/helpers.py: what the scan includes and excludes                 *)
(***************************************************************************)
\* helpers.py 7-19
FILE_TYPES_TO_INCLUDE ==
  { <<46, 99, 115, 115>>,         \* .css
    <<46, 104, 116, 109, 108>>,   \* .html
    <<46, 106, 115>>,             \* .js
    <<46, 106, 115, 111, 110>>,   \* .json
    <<46, 106, 115, 120>>,        \* .jsx
    <<46, 109, 100>>,             \* .md
    <<46, 112, 121>>,             \* .py
    <<46, 116, 115>>,             \* .ts
    <<46, 116, 115, 120>>,        \* .tsx
    <<46, 121, 97, 109, 108>>,    \* .yaml
    <<46, 121, 109, 108>> }       \* .yml

\* helpers.py 21-39
DIRECTORIES_TO_EXCLUDE ==
  { <<46, 42>>,                                                          \* .*
    <<46, 101, 110, 118>>,                                               \* .env
    <<46, 103, 105, 116>>,                                               \* .git
    <<46, 109, 121, 112, 121>>,                                          \* .mypy
    <<46, 109, 121, 112, 121, 95, 99, 97, 99, 104, 101>>,                \* .mypy_cache
    <<46, 110, 101, 120, 116>>,                                          \* .next
    <<46, 112, 121, 116, 101, 115, 116, 95, 99, 97, 99, 104, 101>>,      \* .pytest_cache
    <<46, 114, 117, 102, 102, 95, 99, 97, 99, 104, 101>>,                \* .ruff_cache
    <<46, 118, 101, 110, 118>>,                                          \* .venv
    <<95, 95, 112, 121, 99, 97, 99, 104, 101, 95, 95>>,                  \* __pycache__
    <<95, 95, 112, 121, 112, 97, 99, 107, 97, 103, 101, 115, 95, 95>>,   \* __pypackages__
    <<98, 117, 105, 108, 100>>,                                          \* build
    <<100, 105, 115, 116>>,                                              \* dist
    <<101, 110, 118>>,                                                   \* env
    <<109, 121, 112, 121, 95, 99, 97, 99, 104, 101>>,                    \* mypy_cache
    <<110, 111, 100, 101, 95, 109, 111, 100, 117, 108, 101, 115>>,       \* node_modules
    <<118, 101, 110, 118>> }                                             \* venv

\* helpers.py 41-47
FILES_TO_EXCLUDE ==
  { <<42, 47, 109, 105, 103, 114, 97, 116, 105, 111, 110, 115, 47, 42>>,                 \* */migrations/*
    <<46, 68, 83, 95, 83, 116, 111, 114, 101>>,                                          \* .DS_Store
    <<112, 97, 99, 107, 97, 103, 101, 45, 108, 111, 99, 107, 46, 106, 115, 111, 110>>,   \* package-lock.json
    <<116, 104, 117, 109, 98, 115, 46, 100, 98>>,                                        \* thumbs.db
    <<121, 97, 114, 110, 46, 108, 111, 99, 107>> }                                       \* yarn.lock

(***************************************************************************)
(* Directories.  An entry of a container's file system is None (nothing    *)
(* there), Some(bytes) (a file) or Directory.                              *)
(***************************************************************************)
Directory == <<<<>>, <<>>>>
IsFile(entry) == Len(entry) = 1
Parent(rel) == SubSeq(rel, 1, Len(rel) - 1)

\* the directory that is to hold rel exists; the working directory always does
ParentIsDirectory(fs, c, rel) ==
  Len(rel) = 1 \/ fs[<<c, Parent(rel)>>] = Directory

\* the entries directly under directory dir of container c
Children(fs, c, dir) ==
  {k \in DOMAIN fs : /\ k[1] = c
                     /\ Len(k[2]) = Len(dir) + 1
                     /\ Parent(k[2]) = dir
                     /\ fs[k] # None}

(***************************************************************************)
(* The scan: find | grep | cut                                             *)
(***************************************************************************)
\* file_manager.py 131-176: build_find_grep_fileline_cmd.  The command is kept
\* by its parts: the -name patterns of the pruned directories, those of the
\* dropped files, those of the files passed to grep, and grep's pattern.
build_find_grep_fileline_cmd(extended_regex_query) ==
  [tool |-> "find | grep | cut",
   dir_terms |-> DIRECTORIES_TO_EXCLUDE,
   file_terms |-> FILES_TO_EXCLUDE,
   ext_patterns |-> {<<42>> \o ext : ext \in FILE_TYPES_TO_INCLUDE},
   pattern |-> extended_regex_query]

\* a scan that tests directories like files and descends into every one
RECURSIVE FindNoPrune(_, _, _, _)
FindNoPrune(fs, c, cmd, dir) ==
  UNION { LET name == Chars(k[2][Len(k[2])])
          IN IF fs[k] = Directory THEN FindNoPrune(fs, c, cmd, k[2])
             ELSE IF \E p \in cmd.file_terms : Fnmatch(name, p) THEN {}
             ELSE IF \E p \in cmd.ext_patterns : Fnmatch(name, p) THEN {k[2]}
             ELSE {}
          : k \in Children(fs, c, dir) }

\* find . -mindepth 1 -type d \( dir_terms \) -prune -o -type f \( file_terms \)
\* -prune -o -type f \( ext_patterns \) -exec ... {} +, from directory dir down:
\* the files handed to grep.  -name matches the last segment of the path.
RECURSIVE Find(_, _, _, _)
Find(fs, c, cmd, dir) ==
  UNION { LET name == Chars(k[2][Len(k[2])])
          IN IF fs[k] = Directory
             THEN IF \E p \in cmd.dir_terms : Fnmatch(name, p)
                  THEN {} ELSE Find(fs, c, cmd, k[2])
             ELSE IF \E p \in cmd.file_terms : Fnmatch(name, p) THEN {}
             ELSE IF \E p \in cmd.ext_patterns : Fnmatch(name, p) THEN {k[2]}
             ELSE {}
          : k \in Children(fs, c, dir) }

\* line k of b, without its newline
Line(b, k) ==
  LET s == LineStart(b, k)
      e == LineEnd(b, k)
  IN SubSeq(b, s, IF b[e] = 10 THEN e - 1 ELSE e)

\* grep -i -E -e pattern, for a pattern without special characters: the line
\* holds the pattern, letter case ignored
GrepMatches(line, pattern) ==
  \E i \in 1..(Len(line) - Len(pattern) + 1) :
    \A j \in 1..Len(pattern) : Lower(line[i + j - 1]) = Lower(pattern[j])

\* grep -nH on one file: "./path:n:line\n" for every matching line n
RECURSIVE GrepFile(_, _, _, _)
GrepFile(rel, b, pattern, k) ==
  IF k > LineCount(b) THEN <<>>
  ELSE (IF GrepMatches(Line(b, k), pattern)
        THEN <<<<46, 47>> \o PathText(rel) \o <<58>> \o Digits(k) \o <<58>>
                 \o Line(b, k)>>
        ELSE <<>>) \o GrepFile(rel, b, pattern, k + 1)

\* grep on the files find hands over, in an order find chooses
RECURSIVE GrepFiles(_, _, _, _)
GrepFiles(fs, c, rels, pattern) ==
  IF rels = {} THEN <<>>
  ELSE LET rel == CHOOSE r \in rels : TRUE
       IN GrepFile(rel, fs[<<c, rel>>][1], pattern, 1)
            \o GrepFiles(fs, c, rels \ {rel}, pattern)

\* cut -d: -f1-2 on one line: its first two fields; a line without ":" whole
CutLine(line) ==
  LET fields == Split(line, 58)
  IN IF Len(fields) = 1 THEN line ELSE fields[1] \o <<58>> \o fields[2]

RECURSIVE Unlines(_)
Unlines(lines) ==
  IF lines = <<>> THEN <<>> ELSE lines[1] \o <<10>> \o Unlines(Tail(lines))

\* the standard output of the scan in container c
ScanOutput(fs, c, cmd) ==
  LET lines == GrepFiles(fs, c, Find(fs, c, cmd, <<>>), cmd.pattern)
  IN Unlines([i \in 1..Len(lines) |-> CutLine(lines[i])])

(***************************************************************************)
(* The other commands the helpers build                                    *)
(***************************************************************************)
\* file_manager.py 84: f"rm -f {shlex.quote(file_path)}"
RmCommand(rel) == [tool |-> "rm -f", path |-> rel, quoted |-> TRUE]

\* file_manager.py 105: f"mkdir -p {shlex.quote(dir_path)}"
MkdirCommand(dir) == [tool |-> "mkdir -p", path |-> dir, quoted |-> TRUE]

\* file_manager.py 126: f"test -d {shlex.quote(dir_path)}"
TestDirCommand(dir) == [tool |-> "test -d", path |-> dir, quoted |-> TRUE]

\* the words of the tools' complaints
\* "rm: cannot remove '"
RmCannotRemove == <<114, 109, 58, 32, 99, 97, 110, 110, 111, 116, 32, 114, 101, 109, 111, 118, 101, 32, 39>>
\* "mkdir: cannot create directory '"
MkdirCannotCreate == <<109, 107, 100, 105, 114, 58, 32, 99, 97, 110, 110, 111, 116, 32, 99, 114, 101, 97, 116, 101, 32, 100, 105, 114, 101, 99, 116, 111, 114, 121, 32, 39>>
\* 'sh: 1: cannot create '
ShCannotCreate == <<115, 104, 58, 32, 49, 58, 32, 99, 97, 110, 110, 111, 116, 32, 99, 114, 101, 97, 116, 101, 32>>
\* "': Is a directory\n"
IsADirectory == <<39, 58, 32, 73, 115, 32, 97, 32, 100, 105, 114, 101, 99, 116, 111, 114, 121, 10>>
\* ": Is a directory\n"
ShIsADirectory == <<58, 32, 73, 115, 32, 97, 32, 100, 105, 114, 101, 99, 116, 111, 114, 121, 10>>
\* "': No such file or directory\n"
NoSuchFile == <<39, 58, 32, 78, 111, 32, 115, 117, 99, 104, 32, 102, 105, 108, 101, 32, 111, 114, 32, 100, 105, 114, 101, 99, 116, 111, 114, 121, 10>>
\* "': File exists\n"
FileExists == <<39, 58, 32, 70, 105, 108, 101, 32, 101, 120, 105, 115, 116, 115, 10>>
\* ': Directory nonexistent\n'
DirectoryNonexistent == <<58, 32, 68, 105, 114, 101, 99, 116, 111, 114, 121, 32, 110, 111, 110, 101, 120, 105, 115, 116, 101, 110, 116, 10>>

\* the standard error of a tool that gives up on a path
Complaint(tool, rel, reason) == tool \o PathText(rel) \o reason

\* rm path, without -f: nothing to remove is an error
ShRmNoForce(fs, c, rel) ==
  IF rel = <<>> \/ fs[<<c, rel>>] = None
  THEN [fs |-> fs, run |-> Ran(1, <<>>, Complaint(RmCannotRemove, rel, NoSuchFile))]
  ELSE IF fs[<<c, rel>>] = Directory
    THEN [fs |-> fs,
          run |-> Ran(1, <<>>, Complaint(RmCannotRemove, rel, IsADirectory))]
  ELSE [fs |-> [fs EXCEPT ![<<c, rel>>] = None], run |-> Ran(0, <<>>, <<>>)]

\* rm -f path: the file is removed; nothing to remove is no error; a
\* directory is refused
ShRm(fs, c, rel) ==
  IF rel = <<>> \/ fs[<<c, rel>>] = None THEN [fs |-> fs, run |-> Ran(0, <<>>, <<>>)]
  ELSE IF fs[<<c, rel>>] = Directory
    THEN [fs |-> fs,
          run |-> Ran(1, <<>>, Complaint(RmCannotRemove, rel, IsADirectory))]
  ELSE [fs |-> [fs EXCEPT ![<<c, rel>>] = None], run |-> Ran(0, <<>>, <<>>)]

\* the directories dir and above it
Ancestors(dir) == {SubSeq(dir, 1, n) : n \in 1..Len(dir)}

\* mkdir -p dir: dir and the missing directories above it are made; the empty
\* path and a path through a file are refused
ShMkdir(fs, c, dir) ==
  IF dir = <<>>
  THEN [fs |-> fs, run |-> Ran(1, <<>>, Complaint(MkdirCannotCreate, dir, NoSuchFile))]
  ELSE IF \E a \in Ancestors(dir) : IsFile(fs[<<c, a>>])
  THEN [fs |-> fs, run |-> Ran(1, <<>>, Complaint(MkdirCannotCreate, dir, FileExists))]
  ELSE [fs |-> [k \in DOMAIN fs |->
                  IF k[1] = c /\ k[2] \in Ancestors(dir) THEN Directory ELSE fs[k]],
        run |-> Ran(0, <<>>, <<>>)]

\* test -d dir: status 0 when dir is a directory, 1 otherwise
ShTestDir(fs, c, dir) ==
  [fs |-> fs,
   run |-> Ran(IF dir # <<>> /\ fs[<<c, dir>>] = Directory THEN 0 ELSE 1, <<>>, <<>>)]

\* echo encoded | base64 -d > path: the shell opens path first, and runs
\* nothing when it cannot
ShWrite(fs, c, cmd) ==
  IF cmd.path = <<>> \/ ~ParentIsDirectory(fs, c, cmd.path)
  THEN [fs |-> fs, run |-> Ran(2, <<>>, Complaint(ShCannotCreate, cmd.path, DirectoryNonexistent))]
  ELSE IF fs[<<c, cmd.path>>] = Directory
  THEN [fs |-> fs, run |-> Ran(2, <<>>, Complaint(ShCannotCreate, cmd.path, ShIsADirectory))]
  ELSE [fs |-> [fs EXCEPT ![<<c, cmd.path>>] = Some(Base64Decode(cmd.encoded))],
        run |-> Ran(0, <<>>, <<>>)]

\* "sed: can't read "
SedCantRead == <<115, 101, 100, 58, 32, 99, 97, 110, 39, 116, 32, 114, 101, 97, 100, 32>>
\* "nl: "
NlPrefix == <<110, 108, 58, 32>>
\* ": No such file or directory\n"
NoSuchFileOrDirectory == <<58, 32, 78, 111, 32, 115, 117, 99, 104, 32, 102, 105, 108, 101, 32, 111, 114, 32, 100, 105, 114, 101, 99, 116, 111, 114, 121, 10>>

\* sed's complaint about a path it cannot read
SedCannotRead(rel) == Complaint(SedCantRead, rel, NoSuchFileOrDirectory)
\* nl's complaint about a path it cannot read
NlCannotRead(rel) == Complaint(NlPrefix, rel, NoSuchFileOrDirectory)

\* what a tool that reads path rel is given: the bytes of the file, None when
\* there is no file to read; without a path the tool reads its empty input
Input(fs, c, rel) ==
  IF rel = <<>> THEN Some(<<>>)
  ELSE IF <<c, rel>> \in DOMAIN fs /\ IsFile(fs[<<c, rel>>]) THEN fs[<<c, rel>>]
  ELSE None

\* the operands that name no file to read
RECURSIVE Unreadable(_, _, _)
Unreadable(fs, c, paths) ==
  IF paths = <<>> THEN <<>>
  ELSE (IF Input(fs, c, Head(paths)) = None THEN <<Head(paths)>> ELSE <<>>)
         \o Unreadable(fs, c, Tail(paths))

\* the bytes of the operands that can be read, one file after the other
RECURSIVE ReadOperands(_, _, _)
ReadOperands(fs, c, paths) ==
  IF paths = <<>> THEN <<>>
  ELSE (IF Input(fs, c, Head(paths)) = None THEN <<>> ELSE Input(fs, c, Head(paths))[1])
         \o ReadOperands(fs, c, Tail(paths))

\* a tool's complaints about the operands it cannot read
RECURSIVE Complaints(_, _)
Complaints(tool, paths) ==
  IF paths = <<>> THEN <<>>
  ELSE Complaint(tool, Head(paths), NoSuchFileOrDirectory) \o Complaints(tool, Tail(paths))

\* "sh: 1: cd: can't cd to "
CantCdTo == <<115, 104, 58, 32, 49, 58, 32, 99, 100, 58, 32, 99, 97, 110, 39, 116, 32, 99, 100, 32, 116, 111, 32>>
\* "sh: 1: Syntax error: Unterminated quoted string\n"
UnterminatedQuotedString == <<115, 104, 58, 32, 49, 58, 32, 83, 121, 110, 116, 97, 120, 32, 101, 114, 114, 111, 114, 58, 32, 85, 110, 116, 101, 114, 109, 105, 110, 97, 116, 101, 100, 32, 113, 117, 111, 116, 101, 100, 32, 115, 116, 114, 105, 110, 103, 10>>

\* container c has its working directory; a file system that lists no entry
\* for the working directory has it
HasWorkdir(fs, c) == <<c, <<>>>> \notin DOMAIN fs \/ fs[<<c, <<>>>>] = Directory

\* the text that stands for the path in the command line: the path as
\* shlex.quote returns it, or the path as it is
ArgumentText(cmd) ==
  IF cmd.quoted THEN shlex_quote(PathText(cmd.path)) ELSE PathText(cmd.path)

\* the paths the tool of the command is given as operands by sh
Operands(cmd) ==
  [i \in 1..Len(ShellWords(ArgumentText(cmd)).fields) |->
     PathOf(ShellWords(ArgumentText(cmd)).fields[i])] \o <<>>

\* sed -n 'start,endp' paths...: the lines of the files that can be read,
\* taken as one input; status 2 when a file cannot be read
ShSed(fs, c, cmd, paths) ==
  [fs |-> fs,
   run |-> Ran(IF Unreadable(fs, c, paths) = <<>> THEN 0 ELSE 2,
               SedPrint(ReadOperands(fs, c, paths), cmd.start, cmd.end),
               Complaints(SedCantRead, Unreadable(fs, c, paths)))]

\* the input nl numbers
Numbered(text) == NumberLines(text, 1, LineCount(text))

\* nl -ba paths... | sed -n 'start,endp': the status is that of sed
ShNlSed(fs, c, cmd, paths) ==
  [fs |-> fs,
   run |-> Ran(0,
               SedPrint(Numbered(ReadOperands(fs, c, paths)), cmd.start, cmd.end),
               Complaints(NlPrefix, Unreadable(fs, c, paths)))]

\* the tool of the command, run with the operands sh has made of its argument
ShTool(fs, c, cmd, paths) ==
  IF cmd.tool = "sed" THEN ShSed(fs, c, cmd, paths)
  ELSE IF cmd.tool = "nl | sed" THEN ShNlSed(fs, c, cmd, paths)
  ELSE IF cmd.tool = "echo | base64 -d >"
    THEN ShWrite(fs, c, [cmd EXCEPT !.path = paths[1]])
  ELSE IF cmd.tool = "rm -f" THEN ShRm(fs, c, paths[1])
  ELSE IF cmd.tool = "mkdir -p" THEN ShMkdir(fs, c, paths[1])
  ELSE ShTestDir(fs, c, paths[1])

\* sh -c "cd {workdir} && {command}" in container c: the exit status and the
\* streams of the command, and the files it leaves.  The status of a pipeline
\* is that of its last command; a redirection truncates or creates its file;
\* without the working directory cd fails and the command is not run; a
\* command line sh cannot read is not run either.
Sh(fs, c, cmd) ==
  IF ~HasWorkdir(fs, c)
  THEN [fs |-> fs, run |-> Ran(2, <<>>, CantCdTo \o <<47>> \o Chars(c) \o <<10>>)]
  ELSE IF cmd.tool = "find | grep | cut"
  THEN [fs |-> fs, run |-> Ran(0, ScanOutput(fs, c, cmd), <<>>)]
  ELSE IF ~ShellWords(ArgumentText(cmd)).ok
  THEN [fs |-> fs, run |-> Ran(2, <<>>, UnterminatedQuotedString)]
  ELSE ShTool(fs, c, cmd, Operands(cmd))

(***************************************************************************)
(* The runtime during a request of the file service: plan.at names the     *)
(* exec_in_container call of the request at which the Docker daemon cannot *)
(* be reached, 0 when it answers every call.                               *)
(***************************************************************************)
NoFault == [at |-> 0, get |-> "ok", msg |-> "", run |-> RunFails("none", "")]
Fault(k, m) == [at |-> k, get |-> "APIError", msg |-> m, run |-> RunFails("APIError", m)]

\* the runtime's answer to the n-th call, which would run the command as run
Answer(plan, n, run) ==
  IF plan.at = n THEN Daemon("APIError", plan.msg, RunFails("APIError", plan.msg))
  ELSE Daemon("ok", "", run)

\* raise Exception(msg)
Exception(msg) == [type |-> "Exception", status_code |-> 0, detail |-> msg]

(***************************************************************************)
(* helpers/file_manager.py                                                 *)
(***************************************************************************)
\* file_manager.py 29-34: the command read_file builds
ReadCommand(rel, start_line, end_line, include_line_numbers) ==
  LET start == Max(1, start_line)
      end == IF end_line < 1 THEN None ELSE Some(end_line)
  IN IF include_line_numbers THEN NlSedCommand(rel, start, end)
     ELSE SedCommand(rel, start, end)

\* name = value, then the statements that follow: a local variable is
\* assigned once and read as often as the code reads it
Bind(value, Rest(_)) == Rest(value)

\* file_manager.py 13-44, as the n-th call of a request; result.stdout is
\* never None, exec_in_container sets it
read_file(fs, container_name, rel, start_line, end_line, include_line_numbers, plan, n) ==
  Bind(ReadCommand(rel, start_line, end_line, include_line_numbers), LAMBDA cmd :
  Bind(Answer(plan, n, Sh(fs, container_name, cmd).run), LAMBDA d :
  Bind(exec_in_container(container_name, cmd, d), LAMBDA result :
    [execs |-> ExecRunCall(container_name, cmd, d),
     outcome |->
       IF result.kind = "raise" THEN result
       ELSE IF ~result.value.success
         THEN Raise(Exception(<<L("Failed to read file ")>> \o JoinPath(rel)
                                \o <<L(" in "), L(container_name), L(": ")>>
                                \o result.value.stderr[1]))
       ELSE Return(result.value.stdout[1][1].text)])))

\* file_manager.py 47-70, as the n-th call of a request
overwrite_file(fs, container_name, rel, content, plan, n) ==
  Bind(WriteCommand(rel, Base64Encode(Utf8Encode(content))), LAMBDA cmd :
  Bind(Sh(fs, container_name, cmd), LAMBDA sh :
  Bind(Answer(plan, n, sh.run), LAMBDA d :
  Bind(exec_in_container(container_name, cmd, d), LAMBDA result :
  Bind(ExecRunCall(container_name, cmd, d), LAMBDA calls :
    [execs |-> calls,
     fs |-> IF calls # <<>> THEN sh.fs ELSE fs,
     outcome |->
       IF result.kind = "raise" THEN result
       ELSE IF ~result.value.success
         THEN Raise(Exception(<<L("Failed to overwrite file ")>> \o JoinPath(rel)
                                \o <<L(" in "), L(container_name), L(": ")>>
                                \o result.value.stderr[1]))
       ELSE Return(<<>>)])))))

(***************************************************************************)
(* helpers/file_manager.py: dry_search and search                          *)
(***************************************************************************)
\* interface.py 5 and file_manager.py 233: list(get_args(ContainerName)), the
\* order in which dry_search scans
ValidContainers == <<"frontend", "backend">>

\* sorted(line_numbers)
RECURSIVE sorted(_)
sorted(numbers) ==
  IF numbers = {} THEN <<>>
  ELSE LET least == CHOOSE n \in numbers : \A m \in numbers : n <= m
       IN <<least>> \o sorted(numbers \ {least})

\* file_manager.py 251: file_path_lines.setdefault(file_path, set()).add(line_number);
\* the dict is kept as the sequence of its items in insertion order
SetDefaultAdd(file_path_lines, file_path, line_number) ==
  IF \E i \in 1..Len(file_path_lines) : file_path_lines[i].file_path = file_path
  THEN [i \in 1..Len(file_path_lines) |->
          IF file_path_lines[i].file_path = file_path
          THEN [file_path_lines[i] EXCEPT !.line_numbers = @ \cup {line_number}]
          ELSE file_path_lines[i]]
  ELSE Append(file_path_lines, [file_path |-> file_path, line_numbers |-> {line_number}])

\* file_manager.py 244-251: the loop over the lines of one scan's output
RECURSIVE ParseScan(_, _)
ParseScan(lines, file_path_lines) ==
  IF lines = <<>> THEN Return(file_path_lines)
  ELSE IF Strip(Head(lines)) = <<>> THEN ParseScan(Tail(lines), file_path_lines)
  ELSE LET parts == Split(Head(lines), 58)
       IN IF Len(parts) < 2 THEN Raise(Raised("IndexError", "list index out of range"))
          ELSE LET line_number == ParseInt(parts[2])
               IN IF line_number = None
                  THEN Raise([type |-> "ValueError", status_code |-> 0,
                              detail |-> <<L("invalid literal for int() with base 10: '"),
                                           T(Strip(parts[2])), L("'")>>])
                  ELSE ParseScan(Tail(lines),
                                 SetDefaultAdd(file_path_lines, Strip(parts[1]),
                                               line_number[1]))

\* file_manager.py 239-254: the loop over the containers, from the i-th on.
\* plan.at counts the exec_in_container calls of the request; first is the
\* number of the first scan's call.
RECURSIVE ScanContainers(_, _, _, _, _, _, _, _)
ScanContainers(fs, cmd, plan, first, i, search_res, errors, calls) ==
  IF i > Len(ValidContainers)
  THEN [outcome |-> Return(search_res), errors |-> errors, execs |-> calls]
  ELSE
    Bind(ValidContainers[i], LAMBDA container :
    Bind(Answer(plan, first + i - 1, Sh(fs, container, cmd).run), LAMBDA d :
    Bind(exec_in_container(container, cmd, d), LAMBDA result :
    Bind(calls \o ExecRunCall(container, cmd, d), LAMBDA issued :
      IF result.kind = "raise"
      THEN [outcome |-> result, errors |-> errors, execs |-> issued]
      ELSE IF result.value.success
      THEN Bind(ParseScan(SplitLines(result.value.stdout[1][1].text), <<>>),
                LAMBDA parsed :
             IF parsed.kind = "raise"
             THEN [outcome |-> parsed, errors |-> errors, execs |-> issued]
             ELSE ScanContainers(fs, cmd, plan, first, i + 1,
                    Append(search_res, [container |-> container,
                                        file_path_lines |-> parsed.value]),
                    errors, issued))
      ELSE ScanContainers(fs, cmd, plan, first, i + 1, search_res,
             Append(errors,
                    <<L(container), L(": ")>>
                      \o (IF result.value.stderr[1][1].text = <<>>
                          THEN <<L("Command failed")>>
                          ELSE result.value.stderr[1])),
             issued)))))

\* file_manager.py 270: f"{container}/{file_path.lstrip('./')}"
FullPath(container, file_path) == Chars(container) \o <<47>> \o LStrip(file_path, {46, 47})

\* file_manager.py 257-272: the ranges of every file, under its full path; a
\* dict, kept as the function from its keys to their values
RECURSIVE MergeResult(_, _, _, _)
MergeResult(search_res, context, i, j) ==
  IF i > Len(search_res) THEN <<>>
  ELSE IF j > Len(search_res[i].file_path_lines)
    THEN MergeResult(search_res, context, i + 1, 1)
  ELSE LET item == search_res[i].file_path_lines[j]
           full_path == FullPath(search_res[i].container, item.file_path)
           line_ranges == create_line_ranges_with_context(sorted(item.line_numbers),
                                                          context)
           rest == MergeResult(search_res, context, i, j + 1)
       IN [k \in DOMAIN rest \cup {full_path} |->
             IF k \in DOMAIN rest THEN rest[k] ELSE line_ranges]

\* file_manager.py 227-272
dry_search(fs, extended_regex_query, context, plan, first) ==
  Bind(ScanContainers(fs, build_find_grep_fileline_cmd(extended_regex_query), plan,
                      first, 1, <<>>, <<>>, <<>>), LAMBDA scans :
    [execs |-> scans.execs,
     errors |-> scans.errors,
     outcome |-> IF scans.outcome.kind = "raise" THEN scans.outcome
                 ELSE Return(MergeResult(scans.outcome.value, context, 1, 1))])

\* workspace_service.py 101-105 and file_manager.py 284-288: the assertion on
\* the first segment of file_path
ContainerDetermined(file_path) ==
  file_path # <<>> /\ \E i \in 1..Len(ValidContainers) : ValidContainers[i] = file_path[1]

AssertionError ==
  Raised("AssertionError", "Container could not be determined from file_path")

\* a search that reads the first range only
searchFirstRange(fs, extended_regex_query, context, file_path, include_line_numbers, plan) ==
  IF ~ContainerDetermined(file_path)
  THEN [execs |-> <<>>, outcome |-> Raise(AssertionError)]
  ELSE
    Bind(dry_search(fs, extended_regex_query, context, plan, 1), LAMBDA dry :
      IF dry.outcome.kind = "raise" THEN [execs |-> dry.execs, outcome |-> dry.outcome]
      ELSE
        Bind(dry.outcome.value, LAMBDA _dry_search_res :
        Bind(PathText(file_path), LAMBDA key :
          IF key \notin DOMAIN _dry_search_res \/ _dry_search_res[key] = <<>>
          THEN [execs |-> dry.execs, outcome |-> Return(<<>>)]
          ELSE
            Bind(read_file(fs, file_path[1], Tail(file_path),
                           _dry_search_res[key][1][1], _dry_search_res[key][1][2],
                           include_line_numbers, plan, Len(ValidContainers) + 1),
                 LAMBDA read :
              [execs |-> dry.execs \o read.execs,
               outcome |-> IF read.outcome.kind = "raise" THEN read.outcome
                           ELSE Return(<<read.outcome.value>>)]))))

\* file_manager.py 275-306
search(fs, extended_regex_query, context, file_path, include_line_numbers, plan) ==
  IF ~ContainerDetermined(file_path)
  THEN [execs |-> <<>>, outcome |-> Raise(AssertionError)]
  ELSE
    Bind(dry_search(fs, extended_regex_query, context, plan, 1), LAMBDA dry :
      IF dry.outcome.kind = "raise" THEN [execs |-> dry.execs, outcome |-> dry.outcome]
      ELSE
        Bind(dry.outcome.value, LAMBDA _dry_search_res :
        Bind(PathText(file_path), LAMBDA key :
          IF key \notin DOMAIN _dry_search_res \/ _dry_search_res[key] = <<>>
          THEN [execs |-> dry.execs, outcome |-> Return(<<>>)]
          ELSE
            Bind(_dry_search_res[key], LAMBDA _search_res_at_file :
            Bind(read_file(fs, file_path[1], Tail(file_path),
                           _search_res_at_file[1][1],
                           _search_res_at_file[Len(_search_res_at_file)][2],
                           include_line_numbers, plan, Len(ValidContainers) + 1),
                 LAMBDA read :
              [execs |-> dry.execs \o read.execs,
               outcome |-> IF read.outcome.kind = "raise" THEN read.outcome
                           ELSE Return(<<read.outcome.value>>)])))))

(***************************************************************************)
(* routers/workspace_service.py: dry-search and search                     *)
(***************************************************************************)
\* workspace_service.py 53-58 and 91-96: the except clause of both handlers
SearchFailed(e) ==
  [ShpblResponse EXCEPT
     !.success = FALSE,
     !.message = Some(Str(e)),
     !.data = Some([error |-> Str(e)])]

\* workspace_service.py 36-58
dry_search_workspace(fs, extended_regex_query, context, plan) ==
  Bind(dry_search(fs, extended_regex_query, context, plan, 1), LAMBDA dry :
    [response |-> Envelope(IF dry.outcome.kind = "raise"
                           THEN SearchFailed(dry.outcome.exc)
                           ELSE [ShpblResponse EXCEPT
                                   !.success = TRUE,
                                   !.data = Some(dry.outcome.value)]),
     execs |-> dry.execs,
     errors |-> dry.errors,
     outcome |-> dry.outcome])

\* "\n---\n".join(search_run)
RECURSIVE Join(_)
Join(search_run) ==
  IF search_run = <<>> THEN <<>>
  ELSE IF Len(search_run) = 1 THEN search_run[1]
  ELSE search_run[1] \o <<10, 45, 45, 45, 10>> \o Join(Tail(search_run))

\* workspace_service.py 61-96; the request model has let file_path pass
search_workspace(fs, extended_regex_query, max_results, context, file_path, include_line_numbers, plan) ==
  Bind(search(fs, extended_regex_query, context, file_path, include_line_numbers,
              plan), LAMBDA found :
    [response |->
       Envelope(IF found.outcome.kind = "raise" THEN SearchFailed(found.outcome.exc)
                ELSE
                  Bind(Len(found.outcome.value) > max_results, LAMBDA is_pruned :
                  \* search_run[: max_results]; a negative max_results counts
                  \* from the end
                  Bind(IF ~is_pruned THEN found.outcome.value
                       ELSE SubSeq(found.outcome.value, 1,
                                   IF max_results >= 0 THEN max_results
                                   ELSE Max(Len(found.outcome.value) + max_results, 0)),
                       LAMBDA search_run :
                    [ShpblResponse EXCEPT
                       !.success = TRUE,
                       !.message = Some(<<L("Search completed")>>
                                        \o (IF is_pruned THEN <<L(" (results pruned)")>>
                                            ELSE <<>>)),
                       !.data = Some([results |-> search_run, pruned |-> is_pruned]),
                       !.internal_do_not_parse__ = TRUE,
                       !.unparsed_str_response__ = Some(<<T(Join(search_run))>>)]))),
     execs |-> found.execs,
     outcome |-> found.outcome])

(***************************************************************************)
(* helpers/file_manager.py: delete_file, create_directory, directory_exists*)
(***************************************************************************)
\* what a helper that runs one command leaves: the exec_run calls issued, the
\* files, and its outcome
Helped(calls, fs, sh, outcome) ==
  [execs |-> calls, fs |-> IF calls # <<>> THEN sh.fs ELSE fs, outcome |-> outcome]

\* file_manager.py 73-91, as the n-th call of a request
delete_file(fs, container_name, rel, plan, n) ==
  Bind(RmCommand(rel), LAMBDA cmd :
  Bind(Sh(fs, container_name, cmd), LAMBDA sh :
  Bind(Answer(plan, n, sh.run), LAMBDA d :
  Bind(exec_in_container(container_name, cmd, d), LAMBDA result :
    Helped(ExecRunCall(container_name, cmd, d), fs, sh,
           IF result.kind = "raise" THEN result
           ELSE IF ~result.value.success
             THEN Raise(Exception(<<L("Failed to delete file ")>> \o JoinPath(rel)
                                    \o <<L(" in "), L(container_name), L(": ")>>
                                    \o result.value.stderr[1]))
           ELSE Return(TRUE))))))

\* file_manager.py 94-112, as the n-th call of a request
create_directory(fs, container_name, dir, plan, n) ==
  Bind(MkdirCommand(dir), LAMBDA cmd :
  Bind(Sh(fs, container_name, cmd), LAMBDA sh :
  Bind(Answer(plan, n, sh.run), LAMBDA d :
  Bind(exec_in_container(container_name, cmd, d), LAMBDA result :
    Helped(ExecRunCall(container_name, cmd, d), fs, sh,
           IF result.kind = "raise" THEN result
           ELSE IF ~result.value.success
             THEN Raise(Exception(<<L("Failed to create directory ")>> \o JoinPath(dir)
                                    \o <<L(" in "), L(container_name), L(": ")>>
                                    \o result.value.stderr[1]))
           ELSE Return(TRUE))))))

\* file_manager.py 115-128, as the n-th call of a request
directory_exists(fs, container_name, dir, plan, n) ==
  Bind(TestDirCommand(dir), LAMBDA cmd :
  Bind(Answer(plan, n, Sh(fs, container_name, cmd).run), LAMBDA d :
  Bind(exec_in_container(container_name, cmd, d), LAMBDA result :
    [execs |-> ExecRunCall(container_name, cmd, d),
     outcome |-> IF result.kind = "raise" THEN result
                 ELSE Return(result.value.success)])))

(***************************************************************************)
(* routers/workspace_service.py: read, create-or-overwrite-file and        *)
(* delete-file                                                             *)
(***************************************************************************)
\* an exception leaves the handler: the framework answers 500 Internal
\* Server Error, without a ShpblResponse
Unhandled(e) == [kind |-> "unhandled exception", status_code |-> 500, exc |-> e]

\* the except clause of the three handlers
HandlerFailed(e) ==
  [ShpblResponse EXCEPT
     !.success = FALSE,
     !.message = Some(Str(e)),
     !.data = Some([error |-> Str(e)])]

\* the result of a handler that stopped at its assertion, before the try
Asserted(fs) == [response |-> Unhandled(AssertionError), execs |-> <<>>, fs |-> fs]

\* a handler that reads in the backend when file_path names no container
read_file_workspace_default(fs, file_path, start_line, end_line, include_line_numbers, plan) ==
  Bind(read_file(fs, IF ContainerDetermined(file_path) THEN file_path[1] ELSE "backend",
                 Tail(file_path), start_line, end_line, include_line_numbers, plan, 1),
       LAMBDA read :
    [response |->
       Envelope(IF read.outcome.kind = "raise" THEN HandlerFailed(read.outcome.exc)
                ELSE [ShpblResponse EXCEPT
                        !.success = TRUE,
                        !.message = Some(<<L("File read successfully")>>),
                        !.data = Some([file_content |-> read.outcome.value]),
                        !.internal_do_not_parse__ = TRUE,
                        !.unparsed_str_response__ = Some(<<T(read.outcome.value)>>)]),
     execs |-> read.execs,
     fs |-> fs])

\* workspace_service.py 99-129
read_file_workspace(fs, file_path, start_line, end_line, include_line_numbers, plan) ==
  IF ~ContainerDetermined(file_path) THEN Asserted(fs)
  ELSE
    Bind(read_file(fs, file_path[1], Tail(file_path), start_line, end_line,
                   include_line_numbers, plan, 1), LAMBDA read :
      [response |->
         Envelope(IF read.outcome.kind = "raise" THEN HandlerFailed(read.outcome.exc)
                  ELSE [ShpblResponse EXCEPT
                          !.success = TRUE,
                          !.message = Some(<<L("File read successfully")>>),
                          !.data = Some([file_content |-> read.outcome.value]),
                          !.internal_do_not_parse__ = TRUE,
                          !.unparsed_str_response__ = Some(<<T(read.outcome.value)>>)]),
       execs |-> read.execs,
       fs |-> fs])

\* workspace_service.py 149-154: overwrite_file, as the n-th call, and the
\* response; before are the calls issued so far
CreateOrOverwrite(fs, file_path, content, plan, n, before) ==
  Bind(overwrite_file(fs, file_path[1], Tail(file_path), content, plan, n),
       LAMBDA write :
    [response |->
       Envelope(IF write.outcome.kind = "raise" THEN HandlerFailed(write.outcome.exc)
                ELSE [ShpblResponse EXCEPT
                        !.success = TRUE,
                        !.message = Some(<<L("File created or overwritten successfully")>>),
                        !.data = Some([file_path |-> file_path,
                                       status |-> <<L("created/overwritten")>>])]),
     execs |-> before \o write.execs,
     fs |-> write.fs])

\* workspace_service.py 132-164
create_or_overwrite_file_workspace(fs, file_path, content, plan) ==
  IF ~ContainerDetermined(file_path) THEN Asserted(fs)
  ELSE
    \* os.path.dirname(request.file_path[len(container) + 1 :])
    Bind(Parent(Tail(file_path)), LAMBDA dirname :
    Bind(directory_exists(fs, file_path[1], dirname, plan, 1), LAMBDA exists :
      IF exists.outcome.kind = "raise"
      THEN [response |-> Envelope(HandlerFailed(exists.outcome.exc)),
            execs |-> exists.execs, fs |-> fs]
      ELSE IF exists.outcome.value
      THEN CreateOrOverwrite(fs, file_path, content, plan, 2, exists.execs)
      ELSE
        Bind(create_directory(fs, file_path[1], dirname, plan, 2), LAMBDA created :
          IF created.outcome.kind = "raise"
          THEN [response |-> Envelope(HandlerFailed(created.outcome.exc)),
                execs |-> exists.execs \o created.execs, fs |-> created.fs]
          ELSE CreateOrOverwrite(created.fs, file_path, content, plan, 3,
                                 exists.execs \o created.execs))))

\* workspace_service.py 167-191
delete_file_workspace(fs, file_path, plan) ==
  IF ~ContainerDetermined(file_path) THEN Asserted(fs)
  ELSE
    Bind(delete_file(fs, file_path[1], Tail(file_path), plan, 1), LAMBDA deleted :
      [response |->
         Envelope(IF deleted.outcome.kind = "raise"
                  THEN HandlerFailed(deleted.outcome.exc)
                  ELSE [ShpblResponse EXCEPT
                          !.success = TRUE,
                          !.message = Some(<<L("File deleted successfully")>>),
                          !.data = Some([file_path |-> file_path,
                                         status |-> <<L("deleted")>>])]),
       execs |-> deleted.execs,
       fs |-> deleted.fs])

(***************************************************************************)
(* str.count and str.replace                                               *)
(***************************************************************************)
\* the start positions at which sub matches s
Matches(s, sub) == {i \in 1..(Len(s) - Len(sub) + 1) : SubSeq(s, i, i + Len(sub) - 1) = sub}

\* s.count(sub): the number of non-overlapping occurrences found from left to
\* right, each search resuming behind the previous occurrence; Len(s) + 1 for
\* the empty sub.  Counts above 2 are given as 2: the caller compares the
\* count with 0 and with 1 only.
count(s, sub) ==
  IF sub = <<>> THEN Min(Len(s) + 1, 2)
  ELSE LET m == Matches(s, sub)
       IN IF m = {} THEN 0
          ELSE LET first == CHOOSE i \in m : \A j \in m : i <= j
               IN IF \E j \in m : j >= first + Len(sub) THEN 2 ELSE 1

\* s.replace(old, new): every non-overlapping occurrence, from left to right
RECURSIVE replace(_, _, _)
replace(s, old, new) ==
  IF old = <<>>
  THEN IF s = <<>> THEN new ELSE new \o <<Head(s)>> \o replace(Tail(s), old, new)
  ELSE LET m == Matches(s, old)
       IN IF m = {} THEN s
          ELSE LET first == CHOOSE i \in m : \A j \in m : i <= j
               IN SubSeq(s, 1, first - 1) \o new
                    \o replace(SubSeq(s, first + Len(old), Len(s)), old, new)

(***************************************************************************)
(* routers/workspace_service.py: POST /workspace/replace-string-in-file    *)
(***************************************************************************)
\* the handler's result: its response, the exec_run calls it issued, the
\* files it leaves and the content it passed to overwrite_file, if any
Handled(body, calls, fs, content) ==
  [response |-> Envelope(body), execs |-> calls, fs |-> fs, content |-> content]

\* workspace_service.py 242-248
ReplaceFailed(e) ==
  [ShpblResponse EXCEPT
     !.success = FALSE,
     !.message = Some(<<L("Failed to read file: ")>> \o Str(e)),
     !.data = Some([error |-> Str(e)])]

\* workspace_service.py 194-248; the request model has let file_path pass, so
\* its first segment is a container's name and the assertion holds
replace_string_in_file_workspace(fs, file_path, target_string, replacement_string, plan) ==
  Bind(file_path[1], LAMBDA container :
  Bind(Tail(file_path), LAMBDA rel :
  Bind(read_file(fs, container, rel, 1, 0 - 1, FALSE, plan, 1), LAMBDA read :
    IF read.outcome.kind = "raise"
    THEN Handled(ReplaceFailed(read.outcome.exc), read.execs, fs, None)
    ELSE
      Bind(read.outcome.value, LAMBDA current_content :
      Bind(count(current_content, target_string), LAMBDA occurrences :
        IF occurrences = 0
        THEN Handled([ShpblResponse EXCEPT
                        !.success = FALSE,
                        !.message = Some(<<L("Target string not found in file")>>),
                        !.data = Some([error |-> <<L("Target string not found")>>])],
                     read.execs, fs, None)
        ELSE IF occurrences > 1
        THEN Handled([ShpblResponse EXCEPT
                        !.success = FALSE,
                        !.message = Some(<<L("Target string found multiple times in file")>>),
                        !.data = Some([error |-> <<L("Target string found multiple times")>>])],
                     read.execs, fs, None)
        ELSE
          Bind(replace(current_content, target_string, replacement_string),
               LAMBDA new_content :
          Bind(overwrite_file(fs, container, rel, new_content, plan, 2), LAMBDA write :
            IF write.outcome.kind = "raise"
            THEN Handled(ReplaceFailed(write.outcome.exc),
                         read.execs \o write.execs, write.fs, Some(new_content))
            ELSE Handled([ShpblResponse EXCEPT
                            !.success = TRUE,
                            !.message = Some(<<L("String replaced successfully in file")>>),
                            !.data = Some([file_path |-> file_path,
                                           status |-> <<L("string replaced")>>])],
                         read.execs \o write.execs, write.fs, Some(new_content)))))))))

(***************************************************************************)
(* Specification of the file service: one container at most is up and      *)
(* holds one file or none; replace-string-in-file requests are handled and *)
(* the helpers read_file and overwrite_file are called, one at a time.     *)
(***************************************************************************)
MaxLen == 3     \* longest short file content drawn, in characters

ShortTexts == UNION {[1..n -> {97, 10}] : n \in 0..MaxLen}

\* contents over the output cap: 10,001 times "a"; a newline, then 10,000 times "a"
LongTexts ==
  { Pad(97, MAX_OUTPUT_LENGTH + 1),
    <<10>> \o Pad(97, MAX_OUTPUT_LENGTH) }

\* what a file may hold at the start: nothing (no file), a text, with or
\* without non-ASCII characters, or bytes that are not UTF-8
InitContents ==
  {None} \cup {Some(Utf8Encode(t)) : t \in ShortTexts \cup LongTexts \cup {<<233, 10>>}}
         \cup {Some(<<255>>)}

\* contents passed to overwrite_file: "", "a\n", "é\na", "'$(a)\"\\" and a long one
WriteContents ==
  { <<>>, <<97, 10>>, <<233, 10, 97>>, <<39, 36, 40, 97, 41, 34, 92>>,
    Pad(97, MAX_OUTPUT_LENGTH + 1) }

\* "", "a", "\n", "aa", "\na"
TargetStrings == {<<>>, <<97>>, <<10>>, <<97, 97>>, <<10, 97>>}
ReplacementStrings == {<<>>, <<97>>}
StartLines == {0, 1, 2}
EndLines == {0 - 1, 1}
Plans(calls) == {NoFault} \cup {Fault(k, "connection refused") : k \in 1..calls}

Init ==
  /\ MergeIdle
  /\ \E up \in ContainerNames, present \in BOOLEAN, c \in InitContents :
       /\ containers = IF present THEN {up} ELSE {}
       /\ files = [k \in FileKeys |-> IF present /\ k[1] = up THEN c ELSE None]
  /\ files_before = files
  /\ written = [k \in FileKeys |-> None]
  /\ daemon = NoDaemon
  /\ request = NoRequest
  /\ exec_result = NotCalled
  /\ execs = <<>>
  /\ response = NoResponse

\* interface.py 28-41 and workspace_service.py 194-248
ReplaceStringInFile ==
  /\ request = NoRequest
  /\ \E file_path \in FilePaths, plan \in Plans(2),
        target_string \in TargetStrings, replacement_string \in ReplacementStrings :
       \E h \in {replace_string_in_file_workspace(files, file_path, target_string,
                                                    replacement_string, plan)} :
          /\ request' = [op |-> "replace-string-in-file", file_path |-> file_path,
                         target_string |-> target_string,
                         replacement_string |-> replacement_string]
          /\ daemon' = plan
          /\ response' = h.response
          /\ execs' = h.execs
          /\ files' = h.fs
          /\ written' = IF h.response.body.success
                        THEN [written EXCEPT ![<<file_path[1], Tail(file_path)>>] = h.content]
                        ELSE written
  /\ files_before' = files
  /\ UNCHANGED <<containers, exec_result>>
  /\ UNCHANGED merge_vars

\* a call of overwrite_file(container_name, file_path, content)
CallOverwriteFile ==
  /\ request = NoRequest
  /\ \E key \in FileKeys, content \in WriteContents, plan \in Plans(1) :
       \E w \in {overwrite_file(files, key[1], key[2], content, plan, 1)} :
          /\ request' = [op |-> "overwrite_file", container_name |-> key[1],
                         file_path |-> key[2], content |-> content]
          /\ daemon' = plan
          /\ exec_result' = w.outcome
          /\ execs' = w.execs
          /\ files' = w.fs
          /\ written' = IF w.outcome.kind = "return"
                        THEN [written EXCEPT ![key] = Some(content)] ELSE written
  /\ files_before' = files
  /\ UNCHANGED <<containers, response>>
  /\ UNCHANGED merge_vars

\* a call of read_file(container_name, file_path, start_line, end_line,
\* include_line_numbers)
CallReadFile ==
  /\ request = NoRequest
  /\ \E key \in FileKeys, start_line \in StartLines, end_line \in EndLines,
        include_line_numbers \in BOOLEAN, plan \in Plans(1) :
       \E r \in {read_file(files, key[1], key[2], start_line, end_line,
                             include_line_numbers, plan, 1)} :
          /\ request' = [op |-> "read_file", container_name |-> key[1],
                         file_path |-> key[2], start_line |-> start_line,
                         end_line |-> end_line,
                         include_line_numbers |-> include_line_numbers]
          /\ daemon' = plan
          /\ exec_result' = r.outcome
          /\ execs' = r.execs
  /\ files_before' = files
  /\ UNCHANGED <<containers, response, files, written>>
  /\ UNCHANGED merge_vars

Next ==
  \/ ReplaceStringInFile
  \/ CallOverwriteFile
  \/ CallReadFile
  \/ Deliver

Spec == Init /\ [][Next]_vars

ReplaceRequested == request.op = "replace-string-in-file"
\* the file a replace-string-in-file request names
RequestedFile == <<request.file_path[1], Tail(request.file_path)>>
\* the file held a text when the request arrived
HeldText(key) ==
  /\ files_before[key] # None
  /\ Utf8Decode(files_before[key][1]).ok
PreviousContent(key) == Utf8Decode(files_before[key][1]).text
\* the start positions at which the request's target matches the previous content
TargetPositions == Matches(PreviousContent(RequestedFile), request.target_string)
\* the handler issued a write to a container
WriteIssued == \E i \in 1..Len(execs) : execs[i].command.tool = "echo | base64 -d >"
\* the runtime answered every call of the request and the container is up
RuntimeAnswered(container_name) ==
  /\ daemon = NoFault
  /\ container_name \in containers

\* C1: after a replace-string-in-file request on a file whose content, of any
\* length, holds the non-empty target exactly once, the file is the previous
\* content with that occurrence replaced by the replacement: what precedes and
\* what follows the occurrence is unchanged, nothing is added or dropped.
C1_ReplaceOnceExact ==
  (/\ ReplaceRequested
   /\ RuntimeAnswered(request.file_path[1])
   /\ HeldText(RequestedFile)
   /\ request.target_string # <<>>
   /\ Cardinality(TargetPositions) = 1) =>
    LET prev == PreviousContent(RequestedFile)
        i == CHOOSE p \in TargetPositions : TRUE
    IN files[RequestedFile] =
         Some(Utf8Encode(SubSeq(prev, 1, i - 1) \o request.replacement_string
                           \o SubSeq(prev, i + Len(request.target_string), Len(prev))))

\* C2: a replace-string-in-file request whose target does not occur in the
\* file is answered with a failure envelope (success = false), no write is
\* issued to the container and the file is as it was before the call.
C2_AbsentTargetNoWrite ==
  (/\ ReplaceRequested
   /\ HeldText(RequestedFile)
   /\ TargetPositions = {}) =>
    /\ response.kind = "envelope"
    /\ ~response.body.success
    /\ ~WriteIssued
    /\ files = files_before

\* C3: a replace-string-in-file request whose target matches the file's
\* content at more than one start position is answered with a failure
\* envelope (success = false, no exception) and the file is left unchanged.
C3_MultipleOccurrencesFail ==
  (/\ ReplaceRequested
   /\ HeldText(RequestedFile)
   /\ Cardinality(TargetPositions) > 1) =>
    /\ response.kind = "envelope"
    /\ ~response.body.success
    /\ files = files_before

\* C4: read_file(container, path, start_line=1, end_line=-1,
\* include_line_numbers=False), called after overwrite_file(container, path,
\* content) has succeeded, returns exactly content, whatever its length and
\* its characters.
C4_OverwriteReadRoundTrip ==
  (/\ request.op = "read_file"
   /\ request.start_line = 1
   /\ request.end_line = 0 - 1
   /\ ~request.include_line_numbers
   /\ RuntimeAnswered(request.container_name)
   /\ written[<<request.container_name, request.file_path>>] # None) =>
    exec_result = Return(written[<<request.container_name, request.file_path>>][1])

\* the lines of text, each with the newline that ends it, if any
RECURSIVE LinesOf(_)
LinesOf(text) ==
  IF text = <<>> THEN <<>>
  ELSE LET ends == {i \in 1..Len(text) : text[i] = 10}
       IN IF ends = {} THEN <<text>>
          ELSE LET i == CHOOSE p \in ends : \A q \in ends : p <= q
               IN <<SubSeq(text, 1, i)>> \o LinesOf(SubSeq(text, i + 1, Len(text)))

\* line k as read_file is to return it: as it is, or after its number, which
\* nl writes in six columns before a TAB, ending with a newline every line
\* that has none
ReturnedLine(lines, k, numbered) ==
  IF ~numbered THEN lines[k]
  ELSE Pad(32, 6 - Len(Digits(k))) \o Digits(k) \o <<9>> \o lines[k]
         \o (IF lines[k][Len(lines[k])] = 10 THEN <<>> ELSE <<10>>)

RECURSIVE ReturnedLines(_, _, _, _)
ReturnedLines(lines, from, to, numbered) ==
  IF from > to THEN <<>>
  ELSE ReturnedLine(lines, from, numbered) \o ReturnedLines(lines, from + 1, to, numbered)

\* what read_file is to return for the request, of a file that holds text
LineRange(text) ==
  LET lines == LinesOf(text)
      s == Max(1, request.start_line)
      to == IF request.end_line < 1 THEN Len(lines)
            ELSE IF request.end_line < s THEN Min(s, Len(lines))
            ELSE Min(request.end_line, Len(lines))
  IN ReturnedLines(lines, s, to, request.include_line_numbers)

\* C17: read_file on a file of L lines, of any length, returns with
\* s = max(1, start_line) the lines s..L when end_line < 1, line s alone when
\* 1 <= end_line < s, and the lines s..min(end_line, L) otherwise, each after
\* its number when include_line_numbers is set
C17_ReadLineRange ==
  (/\ request.op = "read_file"
   /\ RuntimeAnswered(request.container_name)
   /\ HeldText(<<request.container_name, request.file_path>>)) =>
    exec_result = Return(LineRange(PreviousContent(<<request.container_name,
                                                     request.file_path>>)))

(***************************************************************************)
(* Specification of the search service: each container is down, up without *)
(* its working directory, or up with a tree of at most MaxFiles files in   *)
(* both containers together; dry-search and search requests are handled,   *)
(* one at a time, and the trees stay as they are.                          *)
(***************************************************************************)
MaxFiles == 2   \* most files in the trees of both containers together

\* "a", "b", "a\nb\na"
SearchContents == {<<97>>, <<98>>, <<97, 10, 98, 10, 97>>}

\* the files a tree may hold: path and content
SearchFiles ==
  {[path |-> <<"app.py">>, content |-> c] : c \in SearchContents}
    \cup {[path |-> p, content |-> <<97>>] :
            p \in { <<"src", "app.py">>, <<"build", "app.py">>,
                    <<"src", "node_modules", "app.py">>, <<".cache", "app.py">>,
                    <<"package-lock.json">>, <<"migrations", "0001.py">>,
                    <<".eslintrc.json">> }}

Prefixes(path) == {SubSeq(path, 1, n) : n \in 0..Len(path)}
SearchKeys == ContainerNames \X UNION {Prefixes(f.path) : f \in SearchFiles}

ContainerStates == {"down", "no workdir", "up"}

\* the file system in which the containers are as state tells and hold the
\* files placed, each with the directories that lead to it
Tree(state, placed) ==
  [k \in SearchKeys |->
     IF k[2] = <<>> THEN (IF state[k[1]] = "up" THEN Directory ELSE None)
     ELSE IF \E f \in placed : f[1] = k[1] /\ f[2].path = k[2]
       THEN Some((CHOOSE f \in placed : f[1] = k[1] /\ f[2].path = k[2])[2].content)
     ELSE IF \E f \in placed : f[1] = k[1] /\ k[2] \in Prefixes(f[2].path)
       THEN Directory
     ELSE None]

\* at most MaxFiles files, no path twice in a container, in containers that
\* are up and have their working directory
Placements(state) ==
  LET Places == {c \in ContainerNames : state[c] = "up"} \X SearchFiles
      Slots == [1..MaxFiles -> Places \cup {None}]
  IN {placed \in {{slots[i] : i \in 1..MaxFiles} \ {None} : slots \in Slots} :
        \A f \in placed, g \in placed :
          f[1] = g[1] /\ f[2].path = g[2].path => f = g}

SearchInit ==
  /\ MergeIdle
  /\ \E state \in [ContainerNames -> ContainerStates] :
       /\ containers = {c \in ContainerNames : state[c] # "down"}
       /\ \E placed \in Placements(state) : files = Tree(state, placed)
  /\ files_before = files
  /\ written = <<>>
  /\ daemon = NoDaemon
  /\ request = NoRequest
  /\ exec_result = NotCalled
  /\ execs = <<>>
  /\ response = NoResponse

\* "a"
SearchQueries == {<<97>>}
SearchContexts == {0, 1}
SearchPaths == {<<"backend", "app.py">>, <<"db", "app.py">>}
MaxResults == {0, 100}

\* models.py 55-58: pattern=r"^(frontend|backend)/.*"
FilePathPattern(file_path) ==
  Len(file_path) >= 2 /\ file_path[1] \in {"frontend", "backend"}

\* models.py 41-43: context_lines is an int with no lower bound
DrySearchContexts == SearchContexts \cup {0 - NegContext}

\* POST /workspace/dry-search
DrySearchWorkspace ==
  /\ request = NoRequest
  /\ \E q \in SearchQueries, context \in DrySearchContexts, plan \in Plans(2) :
       \E h \in {dry_search_workspace(files, q, context, plan)} :
          /\ request' = [op |-> "dry-search", extended_regex_query |-> q,
                         context_lines |-> context]
          /\ daemon' = plan
          /\ exec_result' = h.outcome
          /\ execs' = h.execs
          /\ response' = h.response
  /\ UNCHANGED containers
  /\ UNCHANGED file_vars
  /\ UNCHANGED merge_vars

\* POST /workspace/search
SearchWorkspace ==
  /\ request = NoRequest
  /\ \E q \in SearchQueries, max_results \in MaxResults, context \in SearchContexts,
        file_path \in SearchPaths, include_line_numbers \in BOOLEAN,
        plan \in Plans(3) :
       /\ request' = [op |-> "search", extended_regex_query |-> q,
                      max_results |-> max_results, context_lines |-> context,
                      file_path |-> file_path,
                      include_line_numbers |-> include_line_numbers]
       /\ daemon' = plan
       /\ IF ~FilePathPattern(file_path)
          THEN /\ exec_result' = NotCalled
               /\ execs' = <<>>
               /\ response' = ValidationError("file_path")
          ELSE \E h \in {search_workspace(files, q, max_results, context, file_path,
                                          include_line_numbers, plan)} :
                  /\ exec_result' = h.outcome
                  /\ execs' = h.execs
                  /\ response' = h.response
  /\ UNCHANGED containers
  /\ UNCHANGED file_vars
  /\ UNCHANGED merge_vars

SearchNext ==
  \/ DrySearchWorkspace
  \/ SearchWorkspace
  \/ Deliver

SpecSearch == SearchInit /\ [][SearchNext]_vars

DrySearchRan == request # NoRequest /\ request.op = "dry-search"
\* the number of the scan of container c among the calls of dry_search
ScanCall(c) == CHOOSE i \in 1..Len(ValidContainers) : ValidContainers[i] = c
\* the scan of container c, had dry_search made it, succeeded
ScanSucceeds(c) == c \in containers /\ HasWorkdir(files, c) /\ daemon.at # ScanCall(c)
\* the keys of the files of container c that hold a match of the query: the
\* files grep reports when it is given every regular file of the tree
RECURSIVE HoldsMatch(_, _, _)
HoldsMatch(b, pattern, k) ==
  k <= LineCount(b) /\ (GrepMatches(Line(b, k), pattern) \/ HoldsMatch(b, pattern, k + 1))
MatchingFiles(c) ==
  {k \in DOMAIN files : /\ k[1] = c
                        /\ IsFile(files[k])
                        /\ HoldsMatch(files[k][1], request.extended_regex_query, 1)}
\* the key under which dry_search reports file k
ResultKey(k) == PathText(<<k[1]>> \o k[2])

\* the key dry_search makes of the path find reports for file k
ScanKey(k) == FullPath(k[1], <<46, 47>> \o PathText(k[2]))

\* C13: when dry_search has run, the files holding a match that the scan
\* policy admits, in every container whose scan succeeds, have their key in
\* the returned mapping, whatever happens to the scan of the other container
C13_PartialResultsKept ==
  DrySearchRan =>
    \A c \in ContainerNames :
      ScanSucceeds(c) =>
        /\ exec_result.kind = "return"
        /\ \A k \in MatchingFiles(c) :
             k[2] \in Find(files, c, build_find_grep_fileline_cmd(request.extended_regex_query), <<>>)
               => ScanKey(k) \in DOMAIN exec_result.value

\* C14: when dry-search has been handled and the scan of every container
\* fails, the response reports failure; it reports success only when the
\* scan of at least one container succeeded
C14_AllScansFailReported ==
  DrySearchRan =>
    /\ (\A c \in ContainerNames : ~ScanSucceeds(c)) => ~response.body.success
    /\ response.body.success => \E c \in ContainerNames : ScanSucceeds(c)

\* the directory names the scan is to keep out: the names of the exclusion
\* set and every name that begins with a dot
ExcludedDirectoryName(name) ==
  name \in DIRECTORIES_TO_EXCLUDE \/ (name # <<>> /\ name[1] = 46)
\* rel lies, at some depth, under a directory of such a name
UnderExcludedDirectory(rel) ==
  \E i \in 1..(Len(rel) - 1) : ExcludedDirectoryName(Chars(rel[i]))
DrySearchReturned == DrySearchRan /\ exec_result.kind = "return"

\* C15: no key of a dry_search result names a file that lies, at any depth,
\* under a directory whose name is in the exclusion set or begins with a dot
C15_ExcludedDirectoriesPruned ==
  DrySearchReturned =>
    \A k \in DOMAIN files :
      IsFile(files[k]) /\ UnderExcludedDirectory(k[2])
        => ResultKey(k) \notin DOMAIN exec_result.value

\* a tree with a matching file under node_modules inside src, scanned with
\* success, and a result that has keys
C15_Witness ==
  /\ DrySearchReturned
  /\ \E k \in MatchingFiles("backend") :
       k[2] = <<"src", "node_modules", "app.py">> /\ ScanSucceeds("backend")
  /\ DOMAIN exec_result.value # {}

\* the files the scan is to keep out: lockfiles, OS metadata files and the
\* files inside a migrations directory
ExcludedFile(rel) ==
  \/ rel[Len(rel)] \in {"package-lock.json", "yarn.lock", ".DS_Store", "thumbs.db"}
  \/ \E i \in 1..(Len(rel) - 1) : rel[i] = "migrations"

\* C16: no key of a dry_search result names a lockfile, an OS metadata file
\* or a file inside a migrations directory
C16_ExcludedFilesAbsent ==
  DrySearchReturned =>
    \A k \in DOMAIN files :
      IsFile(files[k]) /\ ExcludedFile(k[2])
        => ResultKey(k) \notin DOMAIN exec_result.value

\* C24: in every dry_search result, for every context_lines the request model
\* admits, each range of each file has 1 <= start <= end, and the ranges of a
\* file are sorted by start and pairwise disjoint.
C24_DrySearchRangesWellFormed ==
  DrySearchReturned =>
    \A key \in DOMAIN exec_result.value :
      LET ranges == exec_result.value[key]
      IN /\ \A i \in 1..Len(ranges) : 1 <= ranges[i][1] /\ ranges[i][1] <= ranges[i][2]
         /\ \A i \in 1..(Len(ranges) - 1) :
              /\ ranges[i][1] < ranges[i + 1][1]
              /\ ranges[i][2] < ranges[i + 1][1]

\* C27: every key of a dry_search result is the container's name, "/" and the
\* path of a file of that container, as it is under the working directory,
\* and every file the scan reports is found under that key, also a file whose
\* name begins with a dot.
C27_KeysAreVirtualPaths ==
  DrySearchReturned =>
    /\ \A key \in DOMAIN exec_result.value :
         \E k \in DOMAIN files : IsFile(files[k]) /\ ResultKey(k) = key
    /\ \A c \in ContainerNames :
         ScanSucceeds(c) =>
           \A k \in MatchingFiles(c) :
             k[2] \in Find(files, c, build_find_grep_fileline_cmd(request.extended_regex_query), <<>>)
               => ResultKey(k) \in DOMAIN exec_result.value

SearchReturned ==
  request # NoRequest /\ request.op = "search" /\ exec_result.kind = "return"
\* the ranges a fresh dry search gives for the file_path of the request
FreshRanges ==
  LET fresh == dry_search(files, request.extended_regex_query, request.context_lines,
                          NoFault, 1).outcome.value
      key == PathText(request.file_path)
  IN IF key \in DOMAIN fresh THEN fresh[key] ELSE <<>>
\* the exec_run calls that read a file
Reads == {i \in 1..Len(execs) : execs[i].command.tool \in {"sed", "nl | sed"}}

\* C20: search returns the empty list, without reading, when the fresh dry
\* search has no ranges for file_path; otherwise one block, the text of a
\* single read of file_path from the start of the first range to the end of
\* the last
C20_SearchOneBlock ==
  SearchReturned =>
    Bind(FreshRanges, LAMBDA ranges :
      IF ranges = <<>> THEN exec_result.value = <<>> /\ Reads = {}
      ELSE /\ Len(exec_result.value) = 1
           /\ Cardinality(Reads) = 1
           /\ \A i \in Reads :
                /\ execs[i].command.path = Tail(request.file_path)
                /\ execs[i].command.start = ranges[1][1]
                /\ execs[i].command.end = Some(ranges[Len(ranges)][2])
           /\ exec_result.value[1] =
                read_file(files, request.file_path[1], Tail(request.file_path),
                          ranges[1][1], ranges[Len(ranges)][2],
                          request.include_line_numbers, NoFault, 1).outcome.value)

\* two disjoint ranges with a line between them, and a block that holds the
\* line of the gap, "b"
C20_Witness ==
  /\ SearchReturned
  /\ Len(FreshRanges) = 2
  /\ FreshRanges[2][1] > FreshRanges[1][2] + 1
  /\ Len(exec_result.value) = 1
  /\ \E i \in 1..Len(exec_result.value[1]) : exec_result.value[1][i] = 98

(***************************************************************************)
(* Specification of the boundary: the seven operations of the service are  *)
(* requested, one at a time, of containers that are up or down; the        *)
(* backend holds app.py and src/app.py or not.  The helpers delete_file    *)
(* and directory_exists are called as well.                                *)
(***************************************************************************)
BoundaryRelPaths == {<<"app.py">>, <<"src">>, <<"src", "app.py">>}
BoundaryKeys == ContainerNames \X BoundaryRelPaths

\* the request's file_path: a path of the backend, or a path whose first
\* segment names no container
BoundaryPaths ==
  {<<"backend">> \o rel : rel \in {<<"app.py">>, <<"src", "app.py">>}}
    \cup {<<"db", "app.py">>}
\* ... and the directory src
DeletePaths == BoundaryPaths \cup {<<"backend", "src">>}

\* "", "a"
BoundaryContents == {<<>>, <<97>>}

BoundaryInit ==
  /\ MergeIdle
  /\ containers \in SUBSET ContainerNames
  /\ \E root \in {None, Some(<<97>>)}, src \in {None, Directory},
        nested \in {None, Some(<<97>>)} :
       /\ nested # None => src = Directory
       /\ files = [k \in BoundaryKeys |->
                     IF k[1] # "backend" THEN None
                     ELSE IF k[2] = <<"app.py">> THEN root
                     ELSE IF k[2] = <<"src">> THEN src
                     ELSE nested]
  /\ files_before = files
  /\ written = <<>>
  /\ daemon = NoDaemon
  /\ request = NoRequest
  /\ exec_result = NotCalled
  /\ execs = <<>>
  /\ response = NoResponse

\* the handler h has answered the request
Answered(h) ==
  /\ response' = h.response
  /\ execs' = h.execs
  /\ files' = h.fs

\* the request model has refused the body for its field: the handler is not
\* entered
Refused(field) ==
  /\ response' = ValidationError(field)
  /\ execs' = <<>>
  /\ files' = files

\* POST /workspace/read
ReadFileWorkspace ==
  /\ request = NoRequest
  /\ \E file_path \in BoundaryPaths, start_line \in StartLines, end_line \in EndLines,
        include_line_numbers \in BOOLEAN, plan \in Plans(1) :
       /\ request' = [op |-> "read", file_path |-> file_path,
                      include_line_numbers |-> include_line_numbers,
                      start_line |-> start_line, end_line |-> end_line]
       /\ daemon' = plan
       \* models.py 70-72: ge=1
       /\ IF start_line < 1 THEN Refused("start_line")
          ELSE \E h \in {read_file_workspace(files, file_path, start_line, end_line,
                                              include_line_numbers, plan)} : Answered(h)
  /\ files_before' = files
  /\ UNCHANGED <<containers, exec_result, written>>
  /\ UNCHANGED merge_vars

\* POST /workspace/create-or-overwrite-file
CreateOrOverwriteFileWorkspace ==
  /\ request = NoRequest
  /\ \E file_path \in BoundaryPaths, content \in BoundaryContents, plan \in Plans(3) :
       /\ request' = [op |-> "create-or-overwrite-file", file_path |-> file_path,
                      content |-> content]
       /\ daemon' = plan
       /\ IF ~FilePathPattern(file_path) THEN Refused("file_path")
          ELSE \E h \in {create_or_overwrite_file_workspace(files, file_path, content,
                                                            plan)} : Answered(h)
  /\ files_before' = files
  /\ UNCHANGED <<containers, exec_result, written>>
  /\ UNCHANGED merge_vars

\* DELETE /workspace/delete-file
DeleteFileWorkspace ==
  /\ request = NoRequest
  /\ \E file_path \in DeletePaths, plan \in Plans(1) :
       /\ request' = [op |-> "delete-file", file_path |-> file_path]
       /\ daemon' = plan
       /\ IF ~FilePathPattern(file_path) THEN Refused("file_path")
          ELSE \E h \in {delete_file_workspace(files, file_path, plan)} : Answered(h)
  /\ files_before' = files
  /\ UNCHANGED <<containers, exec_result, written>>
  /\ UNCHANGED merge_vars

\* "a", "b"
BoundaryTargets == {<<97>>, <<98>>}

\* POST /workspace/replace-string-in-file
ReplaceStringInFileWorkspace ==
  /\ request = NoRequest
  /\ \E file_path \in BoundaryPaths, target_string \in BoundaryTargets,
        replacement_string \in BoundaryContents, plan \in Plans(2) :
       /\ request' = [op |-> "replace-string-in-file", file_path |-> file_path,
                      target_string |-> target_string,
                      replacement_string |-> replacement_string]
       /\ daemon' = plan
       /\ IF ~FilePathPattern(file_path) THEN Refused("file_path")
          ELSE \E h \in {replace_string_in_file_workspace(files, file_path, target_string,
                                                          replacement_string, plan)} :
                 Answered(h)
  /\ files_before' = files
  /\ UNCHANGED <<containers, exec_result, written>>
  /\ UNCHANGED merge_vars

\* "ls", "env"
BoundaryCommands == {<<108, 115>>, <<101, 110, 118>>}
\* "ok\n" on stdout
BoundaryDaemons == Daemons(RunAnswers({0, 1}, {<<111, 107, 10>>}, {<<>>}))

\* POST /workspace/run-command
RunCommandInContainer == RunCommandOf(BoundaryCommands, BoundaryDaemons)

\* a call of delete_file(container_name, file_path)
CallDeleteFile ==
  /\ request = NoRequest
  /\ \E key \in BoundaryKeys, plan \in Plans(1) :
       \E r \in {delete_file(files, key[1], key[2], plan, 1)} :
          /\ request' = [op |-> "delete_file", container_name |-> key[1],
                         file_path |-> key[2]]
          /\ daemon' = plan
          /\ exec_result' = r.outcome
          /\ execs' = r.execs
          /\ files' = r.fs
  /\ files_before' = files
  /\ UNCHANGED <<containers, response, written>>
  /\ UNCHANGED merge_vars

\* a call of directory_exists(container_name, dir_path)
CallDirectoryExists ==
  /\ request = NoRequest
  /\ \E key \in BoundaryKeys, plan \in Plans(1) :
       \E r \in {directory_exists(files, key[1], key[2], plan, 1)} :
          /\ request' = [op |-> "directory_exists", container_name |-> key[1],
                         dir_path |-> key[2]]
          /\ daemon' = plan
          /\ exec_result' = r.outcome
          /\ execs' = r.execs
  /\ files_before' = files
  /\ UNCHANGED <<containers, response, files, written>>
  /\ UNCHANGED merge_vars

BoundaryNext ==
  \/ DrySearchWorkspace
  \/ SearchWorkspace
  \/ ReadFileWorkspace
  \/ CreateOrOverwriteFileWorkspace
  \/ DeleteFileWorkspace
  \/ ReplaceStringInFileWorkspace
  \/ RunCommandInContainer
  \/ CallDeleteFile
  \/ CallDirectoryExists
  \/ Deliver

SpecBoundary == BoundaryInit /\ [][BoundaryNext]_vars

\* a request has been answered
Responded == request # NoRequest /\ response # NoResponse

\* C11: every request that the request model accepts is answered with an
\* envelope, whatever the first segment of file_path and whatever the
\* runtime does
C11_EnvelopeAlways ==
  Responded /\ response.kind # "validation error" => response.kind = "envelope"

\* the operations that take a file_path
FileOperations ==
  {"search", "read", "create-or-overwrite-file", "delete-file", "replace-string-in-file"}
\* the first segment of the request's file_path names no container
NoContainerNamed ==
  /\ Responded
  /\ request.op \in FileOperations
  /\ request.file_path[1] \notin {"backend", "frontend"}
\* the operation has failed: refused, stopped by an exception, or answered
\* with success=false
OperationFailed ==
  \/ response.kind \in {"validation error", "unhandled exception"}
  \/ response.kind = "envelope" /\ ~response.body.success

\* C12: an operation whose file_path has a first segment that names no
\* container fails, executes no command in any container and leaves every
\* file as it was
C12_NoDefaultContainer ==
  NoContainerNamed => OperationFailed /\ execs = <<>> /\ files = files_before

\* a read of db/app.py that the request model let pass, stopped at the
\* handler's assertion while the backend is up and holds app.py
C12_Witness ==
  /\ NoContainerNamed
  /\ request.op = "read"
  /\ response.kind = "unhandled exception"
  /\ "backend" \in containers
  /\ files[<<"backend", <<"app.py">>>>] # None

\* a delete has been made, by the handler or by a call of the helper
DeleteMade ==
  \/ Responded /\ request.op = "delete-file" /\ response.kind # "validation error"
  \/ request.op = "delete_file" /\ exec_result # NotCalled
\* the container and path the delete names
DeleteKey ==
  IF request.op = "delete-file" THEN <<request.file_path[1], Tail(request.file_path)>>
  ELSE <<request.container_name, request.file_path>>
DeleteSucceeded ==
  IF request.op = "delete-file" THEN response.kind = "envelope" /\ response.body.success
  ELSE exec_result = Return(TRUE)
\* the runtime has run the command of the request
CommandExecuted == Len(execs) = 1 /\ execs[1].ran

\* C18: a delete that the runtime executes, of a path that names no
\* directory, succeeds whether the file exists or not, leaves the file
\* absent and every other file as it was; a delete of an absent file, such
\* as the second of two deletes, changes nothing
C18_DeleteIdempotent ==
  DeleteMade /\ CommandExecuted /\ files_before[DeleteKey] # Directory =>
    /\ DeleteSucceeded
    /\ files[DeleteKey] = None
    /\ \A k \in DOMAIN files : k # DeleteKey => files[k] = files_before[k]
    /\ files_before[DeleteKey] = None => files = files_before

\* the handler has deleted a file that was not there, with success, while
\* another file is there
C18_Witness ==
  /\ DeleteMade
  /\ request.op = "delete-file"
  /\ CommandExecuted
  /\ files_before[DeleteKey] = None
  /\ DeleteSucceeded
  /\ \E k \in DOMAIN files : IsFile(files[k])

\* C19: a call of directory_exists returns a boolean, whatever the runtime
\* does
C19_DirectoryExistsNeverRaises ==
  request.op = "directory_exists" /\ exec_result # NotCalled =>
    exec_result.kind = "return" /\ exec_result.value \in BOOLEAN


(***************************************************************************)
(* Specification of the helpers' command lines: the five helpers of        *)
(* file_manager.py are called with paths whose names hold a blank or a     *)
(* single quote, in containers that hold files of these names and files    *)
(* named by the words of such a name.                                      *)
(***************************************************************************)
\* "my file.py", its words "my" and "file.py", and "it's.py"
QuoteRelPaths == {<<"my file.py">>, <<"my">>, <<"file.py">>, <<"it's.py">>}
QuoteKeys == {"backend"} \X QuoteRelPaths
\* the paths the helpers are called with
QuoteArguments == {<<"my file.py">>, <<"it's.py">>, <<"my">>}

\* the file of each name holds one line, the first letter of the name
QuoteContent(rel) == <<Chars(rel[1])[1], 10>>
\* "w\n"
QuoteWritten == {<<119, 10>>}

QuoteInit ==
  /\ MergeIdle
  /\ containers \in SUBSET ContainerNames
  /\ \E present \in SUBSET QuoteRelPaths :
       files = [k \in QuoteKeys |->
                  IF k[1] = "backend" /\ k[2] \in present
                  THEN Some(QuoteContent(k[2])) ELSE None]
  /\ files_before = files
  /\ written = <<>>
  /\ daemon = NoDaemon
  /\ request = NoRequest
  /\ exec_result = NotCalled
  /\ execs = <<>>
  /\ response = NoResponse

\* the helper has returned or raised: r is what it did
HelperDone(op, container_name, rel, plan, r) ==
  /\ request' = [op |-> op, container_name |-> container_name, file_path |-> rel]
  /\ daemon' = plan
  /\ exec_result' = r.outcome
  /\ execs' = r.execs
  /\ files' = IF "fs" \in DOMAIN r THEN r.fs ELSE files
  /\ files_before' = files
  /\ UNCHANGED <<containers, response, written>>
  /\ UNCHANGED merge_vars

\* read_file(container_name, file_path, 1, -1, include_line_numbers)
QuoteReadFile ==
  /\ request = NoRequest
  /\ \E c \in {"backend"}, rel \in QuoteArguments,
        include_line_numbers \in BOOLEAN, plan \in Plans(1) :
       \E r \in {read_file(files, c, rel, 1, 0 - 1, include_line_numbers, plan, 1)} :
          HelperDone(IF include_line_numbers THEN "read_file numbered" ELSE "read_file",
                     c, rel, plan, r)

\* overwrite_file(container_name, file_path, content)
QuoteOverwriteFile ==
  /\ request = NoRequest
  /\ \E c \in {"backend"}, rel \in QuoteArguments, content \in QuoteWritten,
        plan \in Plans(1) :
       \E r \in {overwrite_file(files, c, rel, content, plan, 1)} :
          HelperDone("overwrite_file", c, rel, plan, r)

\* delete_file(container_name, file_path)
QuoteDeleteFile ==
  /\ request = NoRequest
  /\ \E c \in {"backend"}, rel \in QuoteArguments, plan \in Plans(1) :
       \E r \in {delete_file(files, c, rel, plan, 1)} :
          HelperDone("delete_file", c, rel, plan, r)

\* create_directory(container_name, dir_path)
QuoteCreateDirectory ==
  /\ request = NoRequest
  /\ \E c \in {"backend"}, rel \in QuoteArguments, plan \in Plans(1) :
       \E r \in {create_directory(files, c, rel, plan, 1)} :
          HelperDone("create_directory", c, rel, plan, r)

\* directory_exists(container_name, dir_path)
QuoteDirectoryExists ==
  /\ request = NoRequest
  /\ \E c \in {"backend"}, rel \in QuoteArguments, plan \in Plans(1) :
       \E r \in {directory_exists(files, c, rel, plan, 1)} :
          HelperDone("directory_exists", c, rel, plan, r)

QuoteNext ==
  \/ QuoteReadFile
  \/ QuoteOverwriteFile
  \/ QuoteDeleteFile
  \/ QuoteCreateDirectory
  \/ QuoteDirectoryExists
  \/ Deliver

SpecQuote == QuoteInit /\ [][QuoteNext]_vars

\* a helper has been called and its command line was given to sh
HelperRan == request # NoRequest /\ execs # <<>>

\* C25: whatever the path a helper is called with, blanks and quotes
\* included, sh reads the command line the helper has built without a syntax
\* error and gives the tool one operand, the path itself: the path reaches
\* the command line only as shlex.quote returns it.
C25_PathsQuoted ==
  HelperRan =>
    \A i \in 1..Len(execs) :
      /\ execs[i].command.quoted
      /\ ShellWords(ArgumentText(execs[i].command)).ok
      /\ Operands(execs[i].command) = <<request.file_path>>

(***************************************************************************)
(* Specification of the event loop.  main.py starts one uvicorn process    *)
(* with one event loop; every handler of workspace_service.py is an        *)
(* "async def" that calls exec_in_container, a blocking call of the Docker  *)
(* client, without an await: the loop enters one handler at a time and is   *)
(* in it until the handler returns.  Requests arrive while the loop is in   *)
(* a handler; the runtime answers an exec_run call when the command has     *)
(* run, which takes as long as the command takes.                           *)
(***************************************************************************)
MaxTasks == 2   \* most requests the service holds at a time

Tasks == 1..MaxTasks

\* "ab\n": each target occurs once
LoopContent == <<97, 98, 10>>
\* "ls"
LoopCommand == <<108, 115>>
\* run-command in either container; replace "a" by "x" and "b" by "y" in
\* backend/app.py
LoopRequests ==
  {[op |-> "run-command", container_name |-> c, command |-> LoopCommand] :
     c \in ContainerNames}
    \cup {[op |-> "replace-string-in-file", file_path |-> <<"backend", "app.py">>,
           target_string |-> <<t>>, replacement_string |-> <<t + 23>>] : t \in {97, 98}}

\* the command has run, printed "ok\n" and left with status 0
LoopAnswer == Daemon("ok", "", Ran(0, <<111, 107, 10>>, <<>>))

LoopInit ==
  /\ MergeIdle
  /\ containers = ContainerNames
  /\ files = [k \in FileKeys |-> IF k[1] = "backend" THEN Some(LoopContent) ELSE None]
  /\ files_before = files
  /\ written = <<>>
  /\ daemon = NoDaemon
  /\ request = NoRequest
  /\ exec_result = NotCalled
  /\ execs = <<>>
  /\ response = NoResponse

\* the loop's tasks with task i set to t, or without task i
WithTask(i, t) == [j \in DOMAIN loop.tasks \cup {i} |-> IF j = i THEN t ELSE loop.tasks[j]]
WithoutTask(i) == [j \in DOMAIN loop.tasks \ {i} |-> loop.tasks[j]]
\* the exec_run call of task i that the runtime has not answered yet
ExecCall(i, container_name, cmd) ==
  [task |-> i, container |-> container_name,
   workdir |-> get_container_workdir(container_name), command |-> cmd, ran |-> FALSE]
\* the calls, with the calls of task i answered
Answering(i) == [k \in 1..Len(execs) |-> IF execs[k].task = i THEN [execs[k] EXCEPT !.ran = TRUE] ELSE execs[k]]

\* a request has been received and parsed; its handler is to be called
Arrive(i) ==
  /\ i \notin DOMAIN loop.tasks
  /\ \E req \in LoopRequests :
       loop' = [loop EXCEPT !.tasks = WithTask(i, [req |-> req, pc |-> "pending",
                                                    held |-> None,
                                                    response |-> NoResponse])]
  /\ UNCHANGED <<line_numbers, context_lines, merged>>
  /\ UNCHANGED service_vars
  /\ UNCHANGED file_vars

\* handlers entered without regard to the handler the loop is in, as they
\* are when each runs in a thread of its own
CanStartAnytime(i) == TRUE

\* the loop can call the handler of task i: it is in no handler
CanStart(i) == loop.running = {}

\* the command of the first exec_in_container call of the handler
FirstCommand(req) ==
  IF req.op = "run-command" THEN req.command
  ELSE ReadCommand(Tail(req.file_path), 1, 0 - 1, FALSE)

\* workspace_service.py 194-210 and 251-265: the loop calls the handler of
\* task i, which runs up to its first exec_run call and waits there for the
\* runtime's answer
Start(i) ==
  /\ i \in DOMAIN loop.tasks
  /\ loop.tasks[i].pc = "pending"
  /\ CanStart(i)
  /\ loop' = [running |-> loop.running \cup {i},
              tasks |-> WithTask(i, [loop.tasks[i] EXCEPT !.pc = "exec 1"])]
  /\ execs' = Append(execs,
                     ExecCall(i, IF loop.tasks[i].req.op = "run-command"
                                 THEN loop.tasks[i].req.container_name
                                 ELSE loop.tasks[i].req.file_path[1],
                              FirstCommand(loop.tasks[i].req)))
  /\ UNCHANGED <<line_numbers, context_lines, merged>>
  /\ UNCHANGED <<containers, daemon, request, exec_result, response>>
  /\ UNCHANGED file_vars

\* the handler of task i has returned its response: the loop is out of it
Finished(i, resp) ==
  [running |-> loop.running \ {i},
   tasks |-> WithTask(i, [loop.tasks[i] EXCEPT !.pc = "done", !.response = resp])]

\* workspace_service.py 262-273: the command of run-command has run
RunCommandReturns(i) ==
  /\ loop.tasks[i].req.op = "run-command"
  /\ loop.tasks[i].pc = "exec 1"
  /\ loop' = Finished(i, run_command_in_container(loop.tasks[i].req.container_name,
                                                  loop.tasks[i].req.command, LoopAnswer))
  /\ execs' = Answering(i)
  /\ UNCHANGED files

\* workspace_service.py 204-236: the read of replace-string-in-file has run;
\* the handler counts, replaces and calls overwrite_file, or returns
ReadReturns(i) ==
  /\ loop.tasks[i].req.op = "replace-string-in-file"
  /\ loop.tasks[i].pc = "exec 1"
  /\ \E h \in {replace_string_in_file_workspace(files, loop.tasks[i].req.file_path,
                                                loop.tasks[i].req.target_string,
                                                loop.tasks[i].req.replacement_string,
                                                NoFault)} :
       IF h.content = None
       THEN /\ loop' = Finished(i, h.response)
            /\ execs' = Answering(i)
       ELSE /\ loop' = [loop EXCEPT !.tasks = WithTask(i, [loop.tasks[i] EXCEPT
                                                    !.pc = "exec 2",
                                                    !.held = h.content,
                                                    !.response = h.response])]
            /\ execs' = Append(Answering(i), ExecCall(i, loop.tasks[i].req.file_path[1], h.execs[2].command))
  /\ UNCHANGED files

\* workspace_service.py 232-242: the overwrite of replace-string-in-file has
\* run and has written the content the handler made of what it had read
WriteReturns(i) ==
  /\ loop.tasks[i].req.op = "replace-string-in-file"
  /\ loop.tasks[i].pc = "exec 2"
  /\ \E w \in {overwrite_file(files, loop.tasks[i].req.file_path[1],
                              Tail(loop.tasks[i].req.file_path),
                              loop.tasks[i].held[1], NoFault, 2)} :
       /\ files' = w.fs
       /\ loop' = Finished(i, IF w.outcome.kind = "raise"
                              THEN Envelope(ReplaceFailed(w.outcome.exc))
                              ELSE loop.tasks[i].response)
  /\ execs' = Answering(i)

\* the runtime answers the exec_run call task i waits for
ExecReturns(i) ==
  /\ i \in DOMAIN loop.tasks
  /\ (RunCommandReturns(i) \/ ReadReturns(i) \/ WriteReturns(i))
  /\ UNCHANGED <<line_numbers, context_lines, merged>>
  /\ UNCHANGED <<containers, daemon, request, exec_result, response>>
  /\ UNCHANGED <<files_before, written>>

\* the response of task i has been sent; the service keeps nothing of it
Forget(i) ==
  /\ i \in DOMAIN loop.tasks
  /\ loop.tasks[i].pc = "done"
  /\ loop' = [loop EXCEPT !.tasks = WithoutTask(i)]
  /\ execs' = SelectSeq(execs, LAMBDA call : call.task # i)
  /\ UNCHANGED <<line_numbers, context_lines, merged>>
  /\ UNCHANGED <<containers, daemon, request, exec_result, response>>
  /\ UNCHANGED file_vars

LoopNext ==
  \E i \in Tasks :
    \/ Arrive(i)
    \/ Start(i)
    \/ ExecReturns(i)
    \/ Forget(i)

SpecLoop == LoopInit /\ [][LoopNext]_vars

\* task i waits in an exec_run call
InExec(i) == i \in DOMAIN loop.tasks /\ loop.tasks[i].pc \in {"exec 1", "exec 2"}
\* task i has arrived and its handler has not been called
Pending(i) == i \in DOMAIN loop.tasks /\ loop.tasks[i].pc = "pending"

\* C26: while one request waits in an exec_run call, the handler of another
\* request that has arrived can be called: a command that takes long stalls
\* no other request, whichever container it names.
C26_SlowExecStallsNoOne ==
  \A i \in Tasks, j \in Tasks : InExec(i) /\ Pending(j) => ENABLED Start(j)

\* task i is a replace-string-in-file request answered with success
Replaced(i) ==
  /\ i \in DOMAIN loop.tasks
  /\ loop.tasks[i].req.op = "replace-string-in-file"
  /\ loop.tasks[i].pc = "done"
  /\ loop.tasks[i].response.body.success
\* the file the request of task i names holds the request's replacement
HoldsReplacement(i) ==
  LET key == <<loop.tasks[i].req.file_path[1], Tail(loop.tasks[i].req.file_path)>>
  IN /\ files[key] # None
     /\ Matches(files[key][1], loop.tasks[i].req.replacement_string) # {}

\* C30: of two replace-string-in-file requests for the same file with
\* different targets that each occur once, the exec_run calls of one, its
\* read and its overwrite, never have a call of the other between them, and
\* when both have been answered with success the file holds both
\* replacements.
C30_NoLostUpdate ==
  /\ \A k1 \in 1..Len(execs), k2 \in 1..Len(execs), k3 \in 1..Len(execs) :
       (k1 < k2 /\ k2 < k3 /\ execs[k1].task = execs[k3].task)
         => execs[k2].task = execs[k1].task
  /\ \A i \in Tasks, j \in Tasks :
       (/\ i # j
        /\ Replaced(i)
        /\ Replaced(j)
        /\ loop.tasks[i].req.file_path = loop.tasks[j].req.file_path
        /\ loop.tasks[i].req.target_string # loop.tasks[j].req.target_string)
         => HoldsReplacement(i) /\ HoldsReplacement(j)

\* C30 witness: the loop holds both requests, one for "a" and one for "b";
\* both have been answered with success after four exec_run calls and the
\* file is "xy\n".
C30_Witness ==
  /\ Replaced(1)
  /\ Replaced(2)
  /\ loop.tasks[1].req.target_string = <<97>>
  /\ loop.tasks[2].req.target_string = <<98>>
  /\ files[<<"backend", <<"app.py">>>>] = Some(<<120, 121, 10>>)
  /\ Len(execs) = 4

\* a create-or-overwrite-file request has been answered, the container its
\* path names exists and the runtime has answered every call
CreateAnswered ==
  /\ Responded
  /\ request.op = "create-or-overwrite-file"
  /\ request.file_path[1] \in containers
  /\ daemon.at = 0

\* C28: create-or-overwrite-file for a path in a reachable container, be the
\* file directly in the container's working directory (backend/app.py) or in
\* a subdirectory of it (backend/src/app.py), is answered with success and
\* leaves the file with the request's content.
C28_CreateInContainerRoot ==
  CreateAnswered =>
    /\ response.kind = "envelope"
    /\ response.body.success
    /\ files[<<request.file_path[1], Tail(request.file_path)>>] = Some(request.content)

(***************************************************************************)
(* Specification of a scan with a long report: the backend tree holds one  *)
(* file, ScanDepth directories down, of which every line matches the       *)
(* query; each container is down, up without its working directory, or up; *)
(* dry-search requests are handled, one at a time.                         *)
(***************************************************************************)
ScanDepth == 12   \* directories above the file
ScanLines == 13   \* lines of the longest file drawn

\* a directory named by a digest, as a content-addressed store names them
DigestName == "e3b0c44298fc1c149afbf4c8996fb92427ae41e4649b934ca495991b7852b855"
\* digest/digest/.../app.py
DeepFile == [i \in 1..ScanDepth |-> DigestName] \o <<"app.py">>
ScanKeys == ContainerNames \X Prefixes(DeepFile)
ScanLineCounts == {1, 2, ScanLines - 1, ScanLines}

\* n lines "a\n"
MatchingLines(n) == [i \in 1..(2 * n) |-> IF i % 2 = 1 THEN 97 ELSE 10]

ScanInit ==
  /\ MergeIdle
  /\ \E state \in [ContainerNames -> ContainerStates], n \in ScanLineCounts :
       /\ containers = {c \in ContainerNames : state[c] # "down"}
       /\ files = [k \in ScanKeys |->
                     IF state[k[1]] # "up" THEN None
                     ELSE IF k[2] = <<>> THEN Directory
                     ELSE IF k[1] # "backend" THEN None
                     ELSE IF k[2] = DeepFile THEN Some(MatchingLines(n))
                     ELSE Directory]
  /\ files_before = files
  /\ written = <<>>
  /\ daemon = NoDaemon
  /\ request = NoRequest
  /\ exec_result = NotCalled
  /\ execs = <<>>
  /\ response = NoResponse

ScanNext ==
  \/ DrySearchWorkspace
  \/ Deliver

SpecScan == ScanInit /\ [][ScanNext]_vars

\* what grep reported in container c, whole, as dry_search reads a report
Reported(c) ==
  ParseScan(SplitLines(ScanOutput(files, c,
              build_find_grep_fileline_cmd(request.extended_regex_query))), <<>>)

\* a dry-search has run and the scan of every container succeeded
ScansSucceeded == DrySearchRan /\ \A c \in ContainerNames : ScanSucceeds(c)

\* the scan of container c reported more than exec_in_container passes on
ReportCut(c) ==
  Len(ScanOutput(files, c, build_find_grep_fileline_cmd(request.extended_regex_query)))
    > MAX_OUTPUT_LENGTH

\* C29: when the scan of every container succeeds, dry_search returns a
\* mapping and does not raise, however long the report of a scan was, and
\* the mapping is made of the line numbers grep reported: it is the mapping
\* the whole report of each container gives.
C29_LongReportParsed ==
  ScansSucceeded =>
    /\ exec_result.kind = "return"
    /\ exec_result.value =
         MergeResult([i \in 1..Len(ValidContainers) |->
                        [container |-> ValidContainers[i],
                         file_path_lines |-> Reported(ValidContainers[i]).value]],
                     request.context_lines, 1, 1)

====
